---- MODULE Spec2Model ----
(***************************************************************************)
(* A model of lib/udp_connection.js: the reliable-datagram ("VS01")        *)
(* transport of the Steam CM client.  The connection object is a record;  *)
(* every method of UDPConnection is an operator from a connection record   *)
(* to the connection record the method leaves behind, and every event-loop *)
(* callback (socket event, timer, user call) is one action.                *)
(***************************************************************************)
EXTENDS Integers, Sequences, FiniteSets, TLC

\* ------------------------------------------------------------------------
\* Program constants (udp_connection.js:10-45).
MAGIC == "VS01"
MAX_PAYLOAD == 1244
RESEND_DELAY == 3
ACK_TIMEOUT == 15
AHEAD_COUNT == 5
\* the 15000 ms of end()'s fallback timer, in seconds
END_TIMEOUT == 15
\* A 32-bit unsigned value is kept as its two 16-bit halves.
Word(hi, lo) == [hi |-> hi, lo |-> lo]
\* CHALLENGE_MASK = 0xA426DF2B
CHALLENGE_MASK == Word(42022, 57131)
\* var g_SourceConnID = 512
g_SourceConnID == 512

\* EConnectionState and EUdpPacketType are kept by name.
EConnectionState ==
    {"Disconnected", "ChallengeReqSent", "ConnectSent", "Connected", "Disconnecting"}
EUdpPacketType ==
    {"ChallengeReq", "Challenge", "Connect", "Accept", "Disconnect", "Data", "Datagram"}

\* ------------------------------------------------------------------------
\* Bounds of the model.
\* Highest sequence number the local side may assign (caps outSeq - 1)
\* while the receive path is explored.
MaxRecvOutSeq == 3
\* Highest sequence number the local side may assign while the send path is
\* explored.
MaxSendOutSeq == 9
\* the peer's messages in the fragmentation runs: how many, and how many
\* full payloads the longest holds
MaxFragMsgs == 2
MaxFragPackets == 3
\* the highest seq a user's send may take in the life-cycle runs
MaxLifeOutSeq == 3
\* how many of the 'close' and 'end' events of an attempt are remembered
MaxTeardown == 3

\* ------------------------------------------------------------------------
\* Buffers.  A Buffer is a sequence of chunks; a chunk is either bytes
\* lo..hi-1 of the opaque message called tag, or one little-endian u32.
\* Chunks that continue each other are always merged, so two buffers hold
\* the same bytes exactly when they are equal.
Seg(tag, lo, hi) == [kind |-> "seg", tag |-> tag, lo |-> lo, hi |-> hi]
U32(v) == [kind |-> "u32", val |-> v]
ChunkLen(ch) == IF ch.kind = "u32" THEN 4 ELSE ch.hi - ch.lo

Min(a, b) == IF a < b THEN a ELSE b
Max(a, b) == IF a > b THEN a ELSE b
\* rounding down instead of up
CeilFloor(a, b) == a \div b

\* Math.ceil(a / b) for a >= 0, b > 0
Ceil(a, b) == (a + b - 1) \div b

RECURSIVE BufLen(_)
BufLen(b) == IF b = <<>> THEN 0 ELSE ChunkLen(Head(b)) + BufLen(Tail(b))

\* new Buffer holding the n bytes of message tag
NewBuf(tag, n) == IF n = 0 THEN <<>> ELSE <<Seg(tag, 0, n)>>

\* append one chunk, merging it with the last chunk when it continues it
Append1(b, ch) ==
    IF ChunkLen(ch) = 0 THEN b
    ELSE IF b # <<>> /\ b[Len(b)].kind = "seg" /\ ch.kind = "seg"
            /\ b[Len(b)].tag = ch.tag /\ b[Len(b)].hi = ch.lo
         THEN [b EXCEPT ![Len(b)].hi = ch.hi]
         ELSE Append(b, ch)

RECURSIVE BufAppend(_, _)
BufAppend(a, b) == IF b = <<>> THEN a ELSE BufAppend(Append1(a, Head(b)), Tail(b))

\* Buffer.concat(list)
RECURSIVE BufConcat(_)
BufConcat(list) ==
    IF list = <<>> THEN <<>> ELSE BufAppend(Head(list), BufConcat(Tail(list)))

\* bytes from..to-1 of one chunk that starts at offset 0
ChunkSlice(ch, from, to) ==
    IF ch.kind = "seg" THEN Seg(ch.tag, ch.lo + from, ch.lo + to)
    ELSE IF from = 0 /\ to = 4 THEN ch
    ELSE [kind |-> "seg", tag |-> <<"u32", ch.val>>, lo |-> from, hi |-> to]

\* data.slice(from, to), 0 <= from <= to <= data.length
RECURSIVE BufSlice(_, _, _)
BufSlice(b, from, to) ==
    IF b = <<>> \/ to <= 0 \/ from >= to THEN <<>>
    ELSE LET n == ChunkLen(Head(b)) IN
         IF from >= n THEN BufSlice(Tail(b), from - n, to - n)
         ELSE BufAppend(<<ChunkSlice(Head(b), Max(from, 0), Min(to, n))>>,
                        BufSlice(Tail(b), 0, to - n))

\* payload.readUInt32LE(offset) for offset 0 or 4 of a buffer of u32 chunks
ReadUInt32LE(b, offset) == b[(offset \div 4) + 1].val

\* (a ^ b) >>> 0 on 32-bit operands
RECURSIVE XorBits(_, _, _)
XorBits(a, b, n) ==
    IF n = 0 THEN 0
    ELSE (((a % 2) + (b % 2)) % 2) + 2 * XorBits(a \div 2, b \div 2, n - 1)
Xor32(a, b) == Word(XorBits(a.hi, b.hi, 16), XorBits(a.lo, b.lo, 16))

\* ------------------------------------------------------------------------
\* Maps keyed by sequence number (outPackets, inPackets) are functions
\* whose domain is the set of keys.
Delete(m, k) == [x \in (DOMAIN m) \ {k} |-> m[x]]
DeleteAll(m, ks) == [x \in (DOMAIN m) \ ks |-> m[x]]
Put(m, k, v) == [x \in (DOMAIN m) \cup {k} |-> IF x = k THEN v ELSE m[x]]
SetMin(S) == CHOOSE x \in S : \A y \in S : x <= y

\* getSeqBuffer(buffer): the keys, ascending
RECURSIVE SortedSeq(_)
SortedSeq(S) == IF S = {} THEN <<>> ELSE <<SetMin(S)>> \o SortedSeq(S \ {SetMin(S)})
getSeqBuffer(buffer) == SortedSeq(DOMAIN buffer)

\* seqBuffer.splice(0, 1)
Splice1(s) == IF s = <<>> THEN s ELSE Tail(s)

\* ------------------------------------------------------------------------
\* The connection record.  Timestamps are kept as elapsed whole seconds:
\* sentOnce stands for firstSent != 0, sinceFirst for Date.now() - firstSent
\* and sinceSent for Date.now() - sent; each is capped at the only
\* threshold the code compares it with.  wire, disp, events and threw are
\* what the running handler has put on the socket, handed to handleMessage,
\* emitted, and whether it raised.
Emit(c, name, arg) == [c EXCEPT !.events = Append(@, [name |-> name, arg |-> arg])]

\* UDPConnection.prototype.destroy
Destroy(c) ==
    LET e == Emit(Emit([c EXCEPT !.state = "Disconnected"], "close", 0), "end", 0)
    IN  [e EXCEPT !.flushInterval = FALSE,
                  !.socket = "closed",
                  !.threw = @ \/ (c.socket = "closed")]

\* an ack field one above inSeq
AckFieldAbove(c) == c.inSeq + 1

\* the ack field of the header: header.writeUint32(this.inSeqAcked = this.inSeq)
AckField(c) == c.inSeq

\* outSeqSent set to the seq just sent, whatever it was
SentThroughLast(c, packet) == packet.seqThis

\* this.outSeqSent = Math.max(this.outSeqSent, packet.seqThis)
SentThrough(c, packet) == Max(c.outSeqSent, packet.seqThis)

\* UDPConnection.prototype.sendPacketOverWire
SendPacketOverWire(c, packet) ==
    IF c.socket = "closed"
    THEN \* the header is built (inSeqAcked assigned), then socket.send raises
         [c EXCEPT !.inSeqAcked = AckField(c), !.threw = TRUE]
    ELSE [c EXCEPT
            !.inSeqAcked = AckField(c),
            !.wire = Append(@, [type |-> packet.type,
                                src |-> c.sourceConnID,
                                dst |-> c.remoteConnID,
                                seq |-> packet.seqThis,
                                ack |-> AckField(c),
                                packetsInMsg |-> packet.packetsInMsg,
                                msgStartSeq |-> packet.msgStartSeq,
                                msgSize |-> packet.msgSize,
                                payload |-> packet.payload,
                                first |-> ~packet.sentOnce]),
            !.outPackets =
                IF packet.seqThis \in DOMAIN @
                THEN [@ EXCEPT ![packet.seqThis] =
                        [@ EXCEPT !.sentOnce = TRUE,
                                  !.sinceFirst = IF packet.sentOnce THEN @ ELSE 0,
                                  !.sinceSent = 0]]
                ELSE @,
            !.outSeqSent = SentThrough(c, packet),
            !.ackTimeout = FALSE]

\* a window one packet wider
WindowFullLate(c) == c.outSeqSent >= c.outSeqAcked + AHEAD_COUNT + 1

\* if(this.outSeqSent >= (this.outSeqAcked + AHEAD_COUNT)): the window is full
WindowFull(c) == c.outSeqSent >= c.outSeqAcked + AHEAD_COUNT

\* The loop of flushOutgoingBuffer over the rest of its seqBuffer.
RECURSIVE FlushOutLoop(_, _)
FlushOutLoop(c, seqBuffer) ==
    IF seqBuffer = <<>> \/ c.threw THEN c
    ELSE LET seqThis == Head(seqBuffer)
             packet == c.outPackets[seqThis]
         IN
         IF seqThis <= c.outSeqAcked
         THEN FlushOutLoop([c EXCEPT !.outPackets = Delete(@, seqThis)], Splice1(seqBuffer))
         ELSE IF ~packet.sentOnce
         THEN IF WindowFull(c)
              THEN c
              ELSE FlushOutLoop(SendPacketOverWire(c, packet), Splice1(seqBuffer))
         ELSE IF packet.sinceFirst >= ACK_TIMEOUT
         THEN Destroy(Emit(c, "error", "Connection timed out"))
         ELSE IF packet.sinceSent >= RESEND_DELAY
         THEN \* resent, then spliced at line 448 and again at line 452
              FlushOutLoop(SendPacketOverWire(c, packet), Splice1(Splice1(seqBuffer)))
         ELSE FlushOutLoop(c, Splice1(seqBuffer))

\* UDPConnection.prototype.flushOutgoingBuffer
flushOutgoingBuffer(c) == FlushOutLoop(c, getSeqBuffer(c.outPackets))

\* UDPConnection.prototype.sendPacket
sendPacket(c, type, payload, packetsInMsg, msgStartSeq, msgSize) ==
    IF type = "Datagram"
    THEN SendPacketOverWire(c, [sentOnce |-> FALSE, sinceFirst |-> 0, sinceSent |-> 0,
                                type |-> type, seqThis |-> 0, packetsInMsg |-> 0,
                                msgStartSeq |-> 0, msgSize |-> msgSize,
                                payload |-> payload])
    ELSE LET seqThis == c.outSeq
             packet == [sentOnce |-> FALSE, sinceFirst |-> 0, sinceSent |-> 0,
                        type |-> type, seqThis |-> seqThis,
                        packetsInMsg |-> packetsInMsg, msgStartSeq |-> msgStartSeq,
                        msgSize |-> msgSize, payload |-> payload]
         IN  flushOutgoingBuffer([c EXCEPT !.outSeq = seqThis + 1,
                                           !.outPackets = Put(@, seqThis, packet)])

\* The fragment loop of sendMessage, from fragment i on.
RECURSIVE SendFragments(_, _, _, _, _, _)
SendFragments(c, type, data, i, packetsInMsg, msgStartSeq) ==
    IF i >= packetsInMsg \/ c.threw THEN c
    ELSE SendFragments(
            sendPacket(c, type,
                       BufSlice(data, i * MAX_PAYLOAD,
                                Min((i + 1) * MAX_PAYLOAD, BufLen(data))),
                       packetsInMsg, msgStartSeq, BufLen(data)),
            type, data, i + 1, packetsInMsg, msgStartSeq)

\* SteamCrypto.symmetricEncrypt / symmetricEncryptWithHmacIv (data, key):
\* AES-256-CBC with PKCS#7 padding behind a 16-byte IV block.  The
\* ciphertext is a buffer of its own bytes, longer than the plaintext, that
\* stands for the plaintext it was made from.
CipherLen(n) == 16 + 16 * ((n \div 16) + 1)
symmetricEncrypt(data) == NewBuf(<<"enc", data>>, CipherLen(BufLen(data)))

\* SteamCrypto.symmetricDecrypt(payload, key, useHmac) returns the plaintext
\* of a whole ciphertext and raises on anything else
Decryptable(payload) ==
    /\ Len(payload) = 1 /\ payload[1].kind = "seg"
    /\ Len(payload[1].tag) = 2 /\ payload[1].tag[1] = "enc"
    /\ payload[1].lo = 0 /\ payload[1].hi = CipherLen(BufLen(payload[1].tag[2]))
symmetricDecrypt(payload) == payload[1].tag[2]

\* the challenge sent back as it came
MessageDataUnmasked(type, arg) ==
    CASE type = "Connect" -> <<U32(arg)>>
      [] type = "Data" -> arg
      [] OTHER -> <<>>

\* The payload sendMessage builds for a type (its switch); arg is the
\* Buffer of a Data message and the challenge number of a Connect.
MessageData(type, arg) ==
    CASE type = "Connect" -> <<U32(Xor32(arg, CHALLENGE_MASK))>>
      [] type = "Data" -> arg
      [] OTHER -> <<>>

\* UDPConnection.prototype.sendMessage
sendMessage(c, type, arg) ==
    LET data == IF type = "Data" /\ c.sessionKey
                THEN symmetricEncrypt(MessageData(type, arg))
                ELSE MessageData(type, arg)
        msgStartSeq == c.outSeq
        msgSize == BufLen(data)
        packetsInMsg == Max(Ceil(msgSize, MAX_PAYLOAD), 1)
    IN  IF type \notin {"ChallengeReq", "Connect", "Disconnect", "Data", "Datagram"}
        THEN c   \* default: "Tried to send bad packet type"
        ELSE IF msgSize = 0
        THEN sendPacket(c, type, data, packetsInMsg, msgStartSeq, msgSize)
        ELSE SendFragments(c, type, data, 0, packetsInMsg, msgStartSeq)

\* ------------------------------------------------------------------------
\* this.destroy() as the statement after a call that may have raised
DestroyUnlessThrown(a) == IF a.threw THEN a ELSE Destroy(a)

\* a failed decryption taken for the end of the connection
DecryptFailedFatal(c) == Destroy(Emit(c, "error", "decrypt"))

\* catch (ex) { this.emit('encryptionError', ex); return; }
DecryptFailed(c) == Emit(c, "encryptionError", 0)

\* Data taken while the connection is open in either way
DataExpectedUntilClosed(c) == c.state \in {"Connected", "Disconnecting"}

\* case EUdpPacketType.Data: the test of the state (line 630), negated
DataExpected(c) == c.state = "Connected"

\* UDPConnection.prototype.handleMessage
handleMessage(c, type, payload) ==
    CASE type = "Challenge" ->
            IF c.state # "ChallengeReqSent" THEN c
            ELSE IF BufLen(payload) < 8
            THEN \* readUInt32LE beyond the buffer raises
                 [c EXCEPT !.state = "ConnectSent", !.threw = TRUE]
            ELSE sendMessage([c EXCEPT !.state = "ConnectSent",
                                       !.serverLoad = ReadUInt32LE(payload, 4)],
                             "Connect", ReadUInt32LE(payload, 0))
      [] type = "Accept" ->
            IF c.state # "ConnectSent" THEN c
            ELSE Emit([c EXCEPT !.state = "Connected", !.flushInterval = TRUE],
                      "connect", c.serverLoad)
      [] type = "Data" ->
            IF ~DataExpected(c) THEN c
            ELSE IF ~c.sessionKey THEN Emit(c, "packet", payload)
            ELSE IF Decryptable(payload)
            THEN Emit(c, "packet", symmetricDecrypt(payload))
            ELSE DecryptFailed(c)
      [] type = "Datagram" -> c
      [] type = "Disconnect" ->
            IF c.state # "Connected" /\ c.state # "Disconnecting" THEN c
            ELSE DestroyUnlessThrown(sendMessage(c, "Datagram", <<>>))
      [] OTHER -> c

\* no timer is started
queueAckNever(c) == c

\* UDPConnection.prototype.queueAck: arm the 10 ms timer unless it is armed
queueAck(c) == [c EXCEPT !.ackTimeout = TRUE]

\* function packetsAreSameMsg(a, b)
packetsAreSameMsg(a, b) ==
    /\ a.msgSize = b.msgSize
    /\ a.type = b.type
    /\ a.msgStartSeq = b.msgStartSeq
    /\ a.packetsInMsg = b.packetsInMsg

\* seqBuffer.filter(...) of flushIncomingBuffer: the elements that are first
\* or follow their predecessor by one
Consecutive(seqBuffer) ==
    LET keep == {i \in 1..Len(seqBuffer) : i = 1 \/ seqBuffer[i - 1] = seqBuffer[i] - 1}
    IN  [j \in 1..Cardinality(keep) |-> seqBuffer[SortedSeq(keep)[j]]]

\* the call of handleMessage at the end of the drain loop's body
Dispatch(c, first, payload) ==
    handleMessage([c EXCEPT !.disp = Append(@, [type |-> first.type,
                                                 start |-> first.seqThis,
                                                 payload |-> payload])],
                  first.type, payload)

\* no test against inSeqHandled
AlreadyHandledNever(c, seqThis) == FALSE

\* if(seqThis <= this.inSeqHandled): the head was handled already
AlreadyHandled(c, seqThis) == seqThis <= c.inSeqHandled

\* The bufferDrainLoop of flushIncomingBuffer over the rest of its seqBuffer.
RECURSIVE DrainLoop(_, _)
DrainLoop(c, seqBuffer) ==
    IF seqBuffer = <<>> \/ c.threw THEN c
    ELSE LET seqThis == Head(seqBuffer) IN
         IF AlreadyHandled(c, seqThis)
         THEN DrainLoop([c EXCEPT !.inPackets = Delete(@, seqThis)], Splice1(seqBuffer))
         ELSE
         LET c1 == IF seqThis = c.inSeq + 1 THEN [c EXCEPT !.inSeq = seqThis] ELSE c
             packet == c.inPackets[seqThis]
             n == packet.packetsInMsg
         IN
         IF n > 0
         THEN IF packet.msgStartSeq # seqThis
              THEN DrainLoop([c1 EXCEPT !.inPackets = Delete(@, seqThis)],
                             Splice1(seqBuffer))
              ELSE IF \E i \in 0..(n - 1) :
                        i + 1 > Len(seqBuffer) \/ seqBuffer[i + 1] # seqThis + i
              THEN c1   \* break bufferDrainLoop
              ELSE LET packets == [i \in 1..n |-> c.inPackets[seqThis + i - 1]]
                       rest == SubSeq(seqBuffer, n + 1, Len(seqBuffer))
                       c2 == [c1 EXCEPT
                                !.inSeqHandled = Max(@, seqThis + n - 1),
                                !.inPackets = DeleteAll(@, seqThis..(seqThis + n - 1))]
                       payload == BufConcat([i \in 1..n |-> packets[i].payload])
                   IN  IF \E i \in 2..n : ~packetsAreSameMsg(packets[1], packets[i])
                       THEN DrainLoop(c2, rest)
                       ELSE IF BufLen(payload) # packets[1].msgSize
                       THEN DrainLoop(c2, rest)
                       ELSE DrainLoop(Dispatch(c2, packets[1], payload), rest)
         ELSE DrainLoop(Dispatch([c1 EXCEPT !.inPackets = Delete(@, seqThis)],
                                 packet, packet.payload),
                        Splice1(seqBuffer))

\* inSeq is moved and no ack queued
AdvanceInSeqUnqueued(c, seqBuffer) ==
    LET consecutive == Consecutive(seqBuffer)
    IN  IF consecutive # <<>> /\ c.inSeq < consecutive[Len(consecutive)]
        THEN [c EXCEPT !.inSeq = consecutive[Len(consecutive)]]
        ELSE c

\* flushIncomingBuffer up to its drain loop: inSeq is moved to the last of
\* the consecutive seqs and an ack is queued (lines 497-509)
AdvanceInSeq(c, seqBuffer) ==
    LET consecutive == Consecutive(seqBuffer)
    IN  IF consecutive # <<>> /\ c.inSeq < consecutive[Len(consecutive)]
        THEN queueAck([c EXCEPT !.inSeq = consecutive[Len(consecutive)]])
        ELSE c

\* destroyed as soon as the state is Disconnecting, acked or not
DestroyIfDisconnecting(c) ==
    IF ~c.threw /\ c.state = "Disconnecting" THEN Destroy(c) ELSE c

\* flushIncomingBuffer after its drain loop (lines 593-595)
DestroyIfDrained(c) ==
    IF ~c.threw /\ c.state = "Disconnecting" /\ c.outSeqAcked >= c.outSeqSent
    THEN Destroy(c)
    ELSE c

\* UDPConnection.prototype.flushIncomingBuffer
flushIncomingBuffer(c) ==
    DestroyIfDrained(DrainLoop(AdvanceInSeq(c, getSeqBuffer(c.inPackets)),
                               getSeqBuffer(c.inPackets)))

\* What handlePacket reads from a datagram: the header fields, and the
\* bytes after the header as payload (payloadSize is the header's claim).
HeaderOk(c, pkt) ==
    /\ pkt.magic = MAGIC
    /\ pkt.payloadSize <= MAX_PAYLOAD
    /\ pkt.type \in EUdpPacketType
    /\ ~(c.remoteConnID > 0 /\ pkt.sourceConnID # c.remoteConnID)
    /\ pkt.destConnID = c.sourceConnID

\* handlePacket's treatment of the ack field (lines 336-341), and the rest of
\* it from the duplicate test on (lines 343-388)
\* this.flushIncomingBuffer() as the statement after a call that may have
\* raised
FlushInUnlessThrown(a) == IF a.threw THEN a ELSE flushIncomingBuffer(a)

AfterAck(c, pkt) ==
    IF pkt.seqAck > c.outSeqAcked
    THEN FlushInUnlessThrown(flushOutgoingBuffer([c EXCEPT !.outSeqAcked = pkt.seqAck]))
    ELSE c

\* the ack sent at once after every second packet of a message of more
\* than three (lines 380-386)
AckEveryOther(c, pkt) ==
    IF ~c.threw /\ pkt.packetsInMsg > 3
       /\ ((pkt.seqThis - pkt.msgStartSeq) + 1) % 2 = 0
    THEN sendMessage(c, "Datagram", <<>>)
    ELSE c

\* handlePacket from the already-acked test on (lines 343-388)
BufferPacket(c, pkt) ==
    IF c.threw THEN c
    ELSE IF pkt.seqThis > 0 /\ pkt.seqThis <= c.inSeq
    THEN queueAck(c)
    ELSE IF BufLen(pkt.payload) # pkt.payloadSize THEN c
    ELSE IF pkt.type = "Datagram" THEN c
    ELSE AckEveryOther(
            flushIncomingBuffer(
                [c EXCEPT !.inPackets =
                    Put(@, pkt.seqThis,
                        [seqThis |-> pkt.seqThis, type |-> pkt.type,
                         packetsInMsg |-> pkt.packetsInMsg,
                         msgStartSeq |-> pkt.msgStartSeq,
                         msgSize |-> pkt.msgSize,
                         payload |-> pkt.payload])]),
            pkt)

HandleSequenced(c, pkt) == BufferPacket(AfterAck(c, pkt), pkt)

\* UDPConnection.prototype._resetTimeout: the inactivity timer is cleared
\* and, if a time was set, started again
resetTimeout(c) == [c EXCEPT !.timeout = c.timeoutTime]

\* UDPConnection.prototype.setTimeout(ms), ms > 0
setTimeout(c) == resetTimeout([c EXCEPT !.timeoutTime = TRUE])

\* handlePacket after its call of _resetTimeout
ParsePacket(c, pkt) ==
    IF pkt.magic # MAGIC THEN c
    ELSE IF pkt.payloadSize > MAX_PAYLOAD THEN c
    ELSE IF pkt.type \notin EUdpPacketType THEN c
    ELSE IF c.remoteConnID > 0 /\ pkt.sourceConnID # c.remoteConnID THEN c
    ELSE LET c1 == IF c.remoteConnID = 0 /\ pkt.sourceConnID > 0
                   THEN [c EXCEPT !.remoteConnID = pkt.sourceConnID]
                   ELSE c
         IN  IF pkt.destConnID # c1.sourceConnID THEN c1
             ELSE HandleSequenced(c1, pkt)

\* UDPConnection.prototype.handlePacket
handlePacket(c, pkt) == ParsePacket(resetTimeout(c), pkt)

\* the 15 s timer of end(), started unless sendMessage raised
StartEndTimer(c) == IF c.threw THEN c ELSE [c EXCEPT !.endTimer = 0]

\* end() without its tests of the state
endUnguarded(c) ==
    StartEndTimer(sendMessage([c EXCEPT !.state = "Disconnecting"], "Disconnect", <<>>))

\* UDPConnection.prototype.end
end(c) ==
    LET c1 == IF c.state = "ChallengeReqSent" THEN Destroy(c) ELSE c
    IN  IF c1.threw THEN c1
        ELSE IF c1.state = "Disconnected" \/ c1.state = "Disconnecting"
        THEN [c1 EXCEPT !.threw = TRUE]
        ELSE StartEndTimer(sendMessage([c1 EXCEPT !.state = "Disconnecting"],
                                       "Disconnect", <<>>))

\* UDPConnection.prototype.connect: a new socket, bound; the counters,
\* buffers and ids set anew.  The events of a socket that this call
\* replaces while it was still open are not followed.
connect(c) ==
    IF c.state # "Disconnected"
    THEN [c EXCEPT !.threw = TRUE]   \* "Already connected"
    ELSE [c EXCEPT !.socket = "binding",
                   !.sockets = @ + 1,
                   !.outSeq = 1, !.outSeqSent = 0, !.outSeqAcked = 0,
                   !.inSeq = 0, !.inSeqAcked = 0, !.inSeqHandled = 0,
                   !.sourceConnID = c.gSourceConnID,
                   !.attempted = Append(@, c.gSourceConnID),
                   !.remoteConnID = 0,
                   !.outPackets = <<>>, !.inPackets = <<>>,
                   !.serverLoad = Word(-1, -1)]

\* ------------------------------------------------------------------------
\* The transport facade.  Its object is a record: active whether a
\* connection or an attempt is under way, autoRetry the argument of
\* connect(), connected whether the encryption handshake is complete, server
\* the entry of the server list in use, connects the transport connects
\* made so far, errors the error events that reached the user, and last the
\* operation that ran last.
FacadeInit ==
    [active |-> FALSE, autoRetry |-> TRUE, connected |-> FALSE, server |-> 0,
     connects |-> 0, errors |-> 0, last |-> "new"]

\* connect(server, autoRetry): anything under way is dropped, a transport
\* connect made
facadeConnect(f, server, autoRetry) ==
    [f EXCEPT !.active = TRUE, !.autoRetry = autoRetry, !.connected = FALSE,
              !.server = server, !.connects = @ + 1, !.last = "connect"]

\* every transport error is swallowed while autoRetry is set
SwallowsAlways(f) == f.autoRetry

\* the error is swallowed: autoRetry and the encryption handshake not done
Swallows(f) == f.autoRetry /\ ~f.connected

\* the transport's 'error': swallowed and a fresh connect made to the entry
\* server, or surfaced and the connection abandoned
facadeOnError(f, server) ==
    IF Swallows(f)
    THEN [f EXCEPT !.server = server, !.connects = @ + 1, !.last = "error"]
    ELSE [f EXCEPT !.active = FALSE, !.connected = FALSE, !.errors = @ + 1,
                   !.last = "error"]

\* the encryption handshake completes: connected turns true
facadeOnHandshake(f) == [f EXCEPT !.connected = TRUE, !.last = "connected"]

\* disconnect()
facadeDisconnect(f) ==
    [f EXCEPT !.active = FALSE, !.connected = FALSE, !.last = "disconnect"]

\* ------------------------------------------------------------------------
\* The proxy CONNECT attempts.  An attempt is a record: started whether the
\* request was made, timer whether the request's timeout is set, callbacks
\* the outcomes handed to the completion callback, ended the sockets on
\* which end() was called, late the sockets that arrived when an outcome
\* had been reported, and handled the number of request events handled.
\* Sockets are numbered by the event that brought them.  TCPConnection has
\* connectionEstablished, the socket taken as this._stream (0: none) and the
\* events it emitted; the agent has finished, didWeEverConnect, secure, and
\* the socket whose TLS handshake is under way (0: none).
TcpProxyInit ==
    [started |-> FALSE, timer |-> FALSE, connectionEstablished |-> FALSE,
     callbacks |-> <<>>, stream |-> 0, ended |-> {}, late |-> {},
     emitted |-> <<>>, handled |-> 0]

AgentInit ==
    [started |-> FALSE, timer |-> FALSE, secure |-> FALSE, finished |-> FALSE,
     didWeEverConnect |-> FALSE, callbacks |-> <<>>, tls |-> 0, ended |-> {},
     late |-> {}, handled |-> 0]

ProxyInit == [tcp |-> TcpProxyInit, agent |-> AgentInit]

\* a request event is being handled; a socket that comes with it is late
\* when an outcome has been reported already
Handling(a) == [a EXCEPT !.handled = @ + 1]
Arriving(a, socket) ==
    [Handling(a) EXCEPT !.late = IF a.callbacks # <<>> THEN @ \cup {socket} ELSE @]

\* TCPConnection.prototype.connect with options.httpProxy: the request is
\* made and its timeout set (part_001 lines 54-58)
tcpProxyConnect(t) == [t EXCEPT !.started = TRUE, !.timer = TRUE]

\* req.on('connect') of TCPConnection.connect (part_001 lines 60-78)
tcpOnConnect(t, statusCode, socket) ==
    IF t.connectionEstablished
    THEN [t EXCEPT !.ended = @ \cup {socket}]
    ELSE IF statusCode # 200
    THEN [t EXCEPT !.connectionEstablished = TRUE, !.timer = FALSE,
                   !.callbacks = Append(@, "status")]
    ELSE [t EXCEPT !.connectionEstablished = TRUE, !.timer = FALSE,
                   !.stream = socket,
                   !.callbacks = Append(@, "ok"),
                   !.emitted = Append(@, "connect")]

\* req.on('timeout') of TCPConnection.connect (part_001 lines 80-83)
tcpOnTimeout(t) ==
    [t EXCEPT !.connectionEstablished = TRUE, !.callbacks = Append(@, "timeout")]

\* req.on('error') of TCPConnection.connect (part_001 lines 85-93)
tcpOnError(t) ==
    IF ~t.connectionEstablished
    THEN [t EXCEPT !.callbacks = Append(@, "error")]
    ELSE [t EXCEPT !.emitted = Append(@, "error"), !.connectionEstablished = TRUE]

\* agent.createConnection: the request is made and its timeout set
\* (proxy-agent.js lines 39-44)
createConnection(a, secure) ==
    [a EXCEPT !.started = TRUE, !.timer = TRUE, !.secure = secure]

\* req.on('connect') of the agent (proxy-agent.js lines 46-105)
agentOnConnect(a, statusCode, socket) ==
    LET a1 == [a EXCEPT !.didWeEverConnect = TRUE]
    IN  IF a1.finished
        THEN [a1 EXCEPT !.ended = @ \cup {socket}]
        ELSE IF statusCode # 200
        THEN [a1 EXCEPT !.finished = TRUE, !.timer = FALSE,
                        !.callbacks = Append(@, [outcome |-> "status", socket |-> 0])]
        ELSE IF ~a1.secure
        THEN [a1 EXCEPT !.finished = TRUE, !.timer = FALSE,
                        !.callbacks = Append(@, [outcome |-> "ok", socket |-> socket])]
        ELSE [a1 EXCEPT !.finished = TRUE, !.timer = FALSE, !.tls = socket]

\* the callback of TLS.connect (proxy-agent.js lines 84-96)
agentOnSecureConnect(a, authorized) ==
    IF ~authorized
    THEN [a EXCEPT !.tls = 0,
                   !.callbacks = Append(@, [outcome |-> "unauthorized", socket |-> 0])]
    ELSE [a EXCEPT !.tls = 0,
                   !.callbacks = Append(@, [outcome |-> "ok", socket |-> a.tls])]

\* onTlsError (proxy-agent.js lines 99-104); the TLS socket that failed emits
\* nothing further
onTlsError(a) ==
    [a EXCEPT !.tls = 0, !.ended = @ \cup {a.tls},
              !.callbacks = Append(@, [outcome |-> "tls", socket |-> 0])]

\* req.on('timeout') and req.on('error') of the agent (proxy-agent.js lines
\* 107-126)
agentOnFailure(a, outcome) ==
    IF a.finished THEN a
    ELSE [a EXCEPT !.finished = TRUE,
                   !.callbacks = Append(@, [outcome |-> outcome, socket |-> 0])]

\* ------------------------------------------------------------------------
\* The TCP connection (tcp_connection.js).  Buffers here are sequences of
\* byte values.  The object is a record: packetLen is this._packetLen (-1:
\* not set), readable the bytes the stream holds for read(), inFlight the
\* bytes written by the other side that have not arrived, events what was
\* emitted so far, ended whether end() was called, sent the payloads
\* handed to send() on the other side and bad whether the other side has
\* written a header with another magic.  this.sessionKey stays null.
\* const MAGIC = 'VT01' of tcp_connection.js, as bytes
TCP_MAGIC == <<86, 84, 48, 49>>

\* buffer.writeUInt32LE(n, 0) and header.readUInt32LE(0)
writeUInt32LE(n) ==
    <<n % 256, (n \div 256) % 256, (n \div 65536) % 256, (n \div 16777216) % 256>>
readUInt32LE(b) == b[1] + 256 * b[2] + 65536 * b[3] + 16777216 * b[4]

\* TCPConnection.prototype.send: the bytes written for payload data
tcpSend(data) == writeUInt32LE(Len(data)) \o TCP_MAGIC \o data

\* stream.read(n): null unless n > 0 bytes are there (read(0) returns null)
CanRead(t, n) == n > 0 /\ Len(t.readable) >= n

\* if (!this._packetLen): not set, or 0
NoPacketLen(t) == t.packetLen <= 0

\* header.slice(4).toString('ascii') == MAGIC
MagicOk(header) == SubSeq(header, 5, 8) = TCP_MAGIC

\* TCPConnection.prototype._readPacket, from its read of the payload on
RECURSIVE readPacket(_)
ReadBody(t) ==
    IF ~CanRead(t, t.packetLen) THEN t   \* 'incomplete packet'
    ELSE readPacket([t EXCEPT
            !.readable = SubSeq(@, t.packetLen + 1, Len(@)),
            !.packetLen = -1,
            !.events = Append(@, [name |-> "packet",
                                  arg |-> SubSeq(t.readable, 1, t.packetLen)])])

\* TCPConnection.prototype._readPacket
readPacket(t) ==
    IF ~NoPacketLen(t) THEN ReadBody(t)
    ELSE IF ~CanRead(t, 8) THEN t
    ELSE IF ~MagicOk(SubSeq(t.readable, 1, 8))
    THEN [t EXCEPT !.readable = SubSeq(@, 9, Len(@)),
                   !.packetLen = readUInt32LE(SubSeq(t.readable, 1, 8)),
                   !.events = Append(@, [name |-> "error", arg |-> "Bad magic"]),
                   !.ended = TRUE]
    ELSE ReadBody([t EXCEPT !.readable = SubSeq(@, 9, Len(@)),
                            !.packetLen = readUInt32LE(SubSeq(t.readable, 1, 8))])

\* function TCPConnection(): nothing read, nothing sent
TcpInit ==
    [packetLen |-> -1, readable |-> <<>>, inFlight |-> <<>>, events |-> <<>>,
     ended |-> FALSE, sent |-> <<>>, bad |-> FALSE]

\* ------------------------------------------------------------------------
\* State.  The fields of the UDPConnection object after connect(), the
\* outputs of the handler that ran last, and what has happened so far.
VARIABLES
    state, socket, outSeq, outSeqSent, outSeqAcked, inSeq, inSeqAcked, inSeqHandled,
    remoteConnID, outPackets, inPackets, serverLoad, ackTimeout, flushInterval,
    endTimer,
    \* the inactivity timer: whether setTimeout gave it a time, and whether it
    \* is running
    timeoutTime, timeout,
    \* outputs of the last handler: packets put on the socket, messages handed
    \* to handleMessage, events emitted, whether it raised, and its name
    wire, disp, events, threw, last,
    \* history: the peer's outbound queue and the messages it was given to
    \* send, the seqs of the peer's packets that have arrived, the messages dispatched so far, whether a duplicate has been
    \* dropped as already acked with no packet sent since, and the seq of the
    \* packet the last handler received (0: none) and whether it had already
    \* arrived before
    peer, peerMsgs, received, dispLog, reackDue, rcvSeq, rcvAgain,
    \* the arguments of the 'connect' events emitted so far, and the names of
    \* the 'close' and 'end' events emitted since the last connect() (the
    \* first MaxTeardown of them)
    connects, teardown,
    \* the session key the owner has set (false: null), the id of this
    \* connection, and the number of sockets connect() has created
    sessionKey, sourceConnID, sockets,
    \* the process: the module's g_SourceConnID, the other UDPConnection
    \* instances, and the ids connect() has assigned so far, in call order
    gSourceConnID, others, attempts,
    \* the TCPConnection object and its stream
    tcp,
    \* the transport facade (CMClient) of the process
    facade,
    \* the proxy CONNECT attempts: that of TCPConnection.connect and that of
    \* the proxy agent's createConnection
    proxy

connVars == <<state, socket, outSeq, outSeqSent, outSeqAcked, inSeq, inSeqAcked,
              inSeqHandled, remoteConnID, outPackets, inPackets, serverLoad,
              ackTimeout, flushInterval, endTimer, timeoutTime, timeout,
              sessionKey, sourceConnID, sockets>>
procVars == <<gSourceConnID, others, attempts, facade, proxy>>
outVars == <<wire, disp, events, threw, last>>
histVars == <<peer, peerMsgs, received, dispLog, reackDue, rcvSeq, rcvAgain, connects,
              teardown>>
vars == <<connVars, outVars, histVars, procVars, tcp>>

\* The connection object as the handlers see it when they start.
Cur ==
    [state |-> state, socket |-> socket, sourceConnID |-> sourceConnID,
     gSourceConnID |-> gSourceConnID, sessionKey |-> sessionKey,
     sockets |-> sockets, attempted |-> <<>>,
     outSeq |-> outSeq, outSeqSent |-> outSeqSent, outSeqAcked |-> outSeqAcked,
     inSeq |-> inSeq, inSeqAcked |-> inSeqAcked, inSeqHandled |-> inSeqHandled,
     remoteConnID |-> remoteConnID, outPackets |-> outPackets,
     inPackets |-> inPackets, serverLoad |-> serverLoad, ackTimeout |-> ackTimeout,
     flushInterval |-> flushInterval, endTimer |-> endTimer,
     timeoutTime |-> timeoutTime, timeout |-> timeout,
     wire |-> <<>>, disp |-> <<>>, events |-> <<>>, threw |-> FALSE]

\* the arguments of the 'connect' events among the events of a handler
ConnectArgs(evs) ==
    [i \in 1..Cardinality({j \in 1..Len(evs) : evs[j].name = "connect"}) |->
        evs[SortedSeq({j \in 1..Len(evs) : evs[j].name = "connect"})[i]].arg]

\* the first n elements of a sequence
FirstOf(seq, n) == SubSeq(seq, 1, Min(Len(seq), n))

\* the names of the 'close' and 'end' events among the events of a handler
CloseEndNames(evs) ==
    [i \in 1..Cardinality({j \in 1..Len(evs) : evs[j].name \in {"close", "end"}}) |->
        evs[SortedSeq({j \in 1..Len(evs) : evs[j].name \in {"close", "end"}})[i]].name]

\* The connection object a handler leaves behind.
Commit(c, name) ==
    /\ state' = c.state
    /\ socket' = c.socket
    /\ outSeq' = c.outSeq
    /\ outSeqSent' = c.outSeqSent
    /\ outSeqAcked' = c.outSeqAcked
    /\ inSeq' = c.inSeq
    /\ inSeqAcked' = c.inSeqAcked
    /\ inSeqHandled' = c.inSeqHandled
    /\ remoteConnID' = c.remoteConnID
    /\ outPackets' = c.outPackets
    /\ inPackets' = c.inPackets
    /\ serverLoad' = c.serverLoad
    /\ ackTimeout' = c.ackTimeout
    /\ flushInterval' = c.flushInterval
    /\ endTimer' = c.endTimer
    /\ timeoutTime' = c.timeoutTime
    /\ timeout' = c.timeout
    /\ sessionKey' = c.sessionKey
    /\ sourceConnID' = c.sourceConnID
    /\ sockets' = c.sockets
    /\ gSourceConnID' = c.gSourceConnID
    /\ attempts' = attempts \o c.attempted
    /\ others' = others
    /\ facade' = facade
    /\ proxy' = proxy
    /\ tcp' = tcp
    /\ wire' = c.wire
    /\ disp' = c.disp
    /\ events' = c.events
    /\ threw' = c.threw
    /\ last' = name
    /\ dispLog' = dispLog \o c.disp
    /\ connects' = connects \o ConnectArgs(c.events)
    /\ teardown' = FirstOf((IF name = "connect" /\ ~c.threw THEN <<>> ELSE teardown)
                                \o CloseEndNames(c.events),
                            MaxTeardown)
    /\ peer' = peer /\ peerMsgs' = peerMsgs

\* ------------------------------------------------------------------------
\* The peer.  It sends Challenge (seq 1), Accept (seq 2) and then the Data
\* messages of the script, fragmented by the protocol's own rule: its Data
\* packets are the records sendMessage queues for the same messages.
\* challenge 0x12345678, server load 42
Peer == [connID |-> 7, challenge |-> Word(4660, 22136), load |-> Word(0, 42)]

\* The Data messages the peer sends, by size in bytes: a message of one
\* packet and one of four; or one of two packets and two of one.
PeerScripts ==
    { <<10, 3 * MAX_PAYLOAD + 1>>,
      <<MAX_PAYLOAD + 1, 10, 0>> }

\* a sender's connection record with nothing sent yet, next seq = first
Sender(first) ==
    [state |-> "Connected", socket |-> "listening", sourceConnID |-> Peer.connID,
     outSeq |-> first, outSeqSent |-> first - 1, outSeqAcked |-> first - 1,
     inSeq |-> 0, inSeqAcked |-> 0, inSeqHandled |-> 0,
     remoteConnID |-> g_SourceConnID, outPackets |-> <<>>,
     inPackets |-> <<>>, serverLoad |-> Word(-1, -1), ackTimeout |-> FALSE,
     flushInterval |-> FALSE, endTimer |-> -1,
     timeoutTime |-> FALSE, timeout |-> FALSE,
     gSourceConnID |-> 0, sessionKey |-> FALSE, sockets |-> 1, attempted |-> <<>>,
     wire |-> <<>>, disp |-> <<>>, events |-> <<>>, threw |-> FALSE]

\* what the peer has queued (by seq) and the messages it was asked to send,
\* after the handshake messages
PeerHandshake ==
    LET hs == [type |-> "Challenge", seqThis |-> 1, packetsInMsg |-> 1,
               msgStartSeq |-> 1, msgSize |-> 8,
               payload |-> <<U32(Peer.challenge), U32(Peer.load)>>]
        ac == [type |-> "Accept", seqThis |-> 2, packetsInMsg |-> 1,
               msgStartSeq |-> 2, msgSize |-> 0, payload |-> <<>>]
    IN  [queue |-> [q \in {1, 2} |-> IF q = 1 THEN hs ELSE ac], msgs |-> <<>>]

\* the peer calls send(data): sendMessage(Data, data) with outSeq = first
PeerSendMessage(p, data) ==
    LET first == Cardinality(DOMAIN p.queue) + 1
        sent == sendMessage(Sender(first), "Data", data).outPackets
    IN  [queue |-> [q \in (DOMAIN p.queue) \cup (DOMAIN sent) |->
                      IF q \in DOMAIN p.queue THEN p.queue[q]
                      ELSE [type |-> sent[q].type, seqThis |-> sent[q].seqThis,
                            packetsInMsg |-> sent[q].packetsInMsg,
                            msgStartSeq |-> sent[q].msgStartSeq,
                            msgSize |-> sent[q].msgSize,
                            payload |-> sent[q].payload]],
         msgs |-> Append(p.msgs, [first |-> first, data |-> data])]

\* the peer after sending messages of the given sizes
RECURSIVE PeerScript(_, _)
PeerScript(sizes, i) ==
    IF i = 0 THEN PeerHandshake
    ELSE PeerSendMessage(PeerScript(sizes, i - 1), NewBuf(<<"peer", i>>, sizes[i]))

\* the datagram that carries the peer's packet q with ack value a
PeerPacket(q, a) ==
    LET p == peer[q]
    IN  [magic |-> MAGIC, payloadSize |-> BufLen(p.payload), type |-> p.type,
         sourceConnID |-> Peer.connID, destConnID |-> g_SourceConnID,
         seqThis |-> q, seqAck |-> a, packetsInMsg |-> p.packetsInMsg,
         msgStartSeq |-> p.msgStartSeq, msgSize |-> p.msgSize, payload |-> p.payload]

\* a pure-ack Datagram of the peer
PeerAck(a) ==
    [magic |-> MAGIC, payloadSize |-> 0, type |-> "Datagram",
     sourceConnID |-> Peer.connID, destConnID |-> g_SourceConnID,
     seqThis |-> 0, seqAck |-> a, packetsInMsg |-> 0,
     msgStartSeq |-> 0, msgSize |-> 0, payload |-> <<>>]

PeerSeqs == DOMAIN peer

\* ------------------------------------------------------------------------
\* Init: the object right after connect(options): the socket is created and
\* bind() has been called, 'listening' has not fired yet.
InitConn ==
    /\ state = "Disconnected"
    /\ socket = "binding"
    /\ outSeq = 1 /\ outSeqSent = 0 /\ outSeqAcked = 0
    /\ inSeq = 0 /\ inSeqAcked = 0 /\ inSeqHandled = 0
    /\ remoteConnID = 0
    /\ outPackets = <<>> /\ inPackets = <<>>
    /\ serverLoad = Word(-1, -1)   \* null
    /\ ackTimeout = FALSE /\ flushInterval = FALSE /\ endTimer = -1
    /\ timeoutTime = FALSE /\ timeout = FALSE
    /\ sessionKey = FALSE
    /\ sourceConnID = g_SourceConnID /\ gSourceConnID = g_SourceConnID
    /\ sockets = 1 /\ attempts = <<g_SourceConnID>>
    /\ facade = FacadeInit
    /\ proxy = ProxyInit
    /\ others = <<>>
    /\ tcp = TcpInit
    /\ connects = <<>> /\ teardown = <<>>
    /\ wire = <<>> /\ disp = <<>> /\ events = <<>> /\ threw = FALSE
    /\ last = "connect"
    /\ received = {} /\ dispLog = <<>> /\ reackDue = FALSE
    /\ rcvSeq = 0 /\ rcvAgain = FALSE

\* the peer has one of the scripts to send
PeerIs(p) == peer = p.queue /\ peerMsgs = p.msgs
Init == InitConn /\ \E sizes \in PeerScripts : PeerIs(PeerScript(sizes, Len(sizes)))

\* a handler that received nothing from the peer
NoReceipt(c) ==
    /\ received' = received
    /\ rcvSeq' = 0 /\ rcvAgain' = FALSE
    /\ reackDue' = IF c.wire # <<>> THEN FALSE ELSE reackDue

\* the handler called name has run and left c
Done(c, name) == Commit(c, name) /\ NoReceipt(c)

\* socket.on('listening')
Listening ==
    /\ socket = "binding"
    /\ Done(sendMessage([Cur EXCEPT !.socket = "listening",
                                     !.gSourceConnID = @ + 256,
                                     !.state = "ChallengeReqSent"],
                         "ChallengeReq", <<>>),
            "listening")

\* the packet is one the code treats as already acked (line 343)
AlreadyAcked(c, pkt) == ~c.threw /\ pkt.seqThis > 0 /\ pkt.seqThis <= c.inSeq
IsDuplicate(c, pkt) == HeaderOk(c, pkt) /\ AlreadyAcked(AfterAck(c, pkt), pkt)

\* handlePacket(pkt) has run and left c
Received(c, pkt) ==
    /\ Commit(c, "message")
    /\ received' = IF HeaderOk(Cur, pkt) /\ pkt.seqThis > 0
                   THEN received \cup {pkt.seqThis} ELSE received
    /\ rcvSeq' = pkt.seqThis
    /\ rcvAgain' = (pkt.seqThis \in received)
    /\ reackDue' = IF IsDuplicate(Cur, pkt) THEN TRUE
                   ELSE IF c.wire # <<>> THEN FALSE ELSE reackDue

\* socket.on('message') from the remote address: handlePacket(msg)
RecvPacket(pkt) ==
    /\ socket = "listening"
    /\ Received(handlePacket(Cur, pkt), pkt)

\* UDPConnection.prototype.send(data), data the n bytes of a new message;
\* the user sends while no seq above maxSeq would be assigned
Send(n, maxSeq) ==
    /\ socket = "listening"
    /\ outSeq + Max(Ceil(n, MAX_PAYLOAD), 1) - 1 <= maxSeq
    /\ Done(sendMessage(Cur, "Data", NewBuf(<<"out", outSeq>>, n)), "send")

\* the user calls end()
End ==
    /\ socket = "listening"
    /\ Done(end(Cur), "end")

\* the user calls destroy()
UserDestroy ==
    /\ socket # "closed"
    /\ Done(Destroy(Cur), "destroy")

\* the 10 ms timer of queueAck fires
AckTimerFires ==
    /\ ackTimeout
    /\ Done(IF inSeqAcked < inSeq
            THEN sendMessage([Cur EXCEPT !.ackTimeout = FALSE], "Datagram", <<>>)
            ELSE [Cur EXCEPT !.ackTimeout = FALSE],
            "ackTimer")

\* the 500 ms interval started on Accept fires
FlushTick ==
    /\ flushInterval
    /\ Done(flushOutgoingBuffer(Cur), "flushTick")

\* the 15 s timer of end() fires
FallbackFires ==
    /\ endTimer = END_TIMEOUT
    /\ Done(IF state = "Disconnecting"
            THEN Destroy([Cur EXCEPT !.endTimer = -1])
            ELSE [Cur EXCEPT !.endTimer = -1],
            "endTimer")

\* the connection d seconds later: Date.now() has grown by d seconds
Aged(c, d) ==
    [c EXCEPT
        !.endTimer = IF @ >= 0 THEN Min(@ + d, END_TIMEOUT) ELSE @,
        !.outPackets =
            [q \in DOMAIN @ |->
                IF @[q].sentOnce
                THEN [@[q] EXCEPT !.sinceFirst = Min(@ + d, ACK_TIMEOUT),
                                  !.sinceSent = Min(@ + d, RESEND_DELAY)]
                ELSE @[q]]]

\* d seconds pass with no event in between.  A pending 10 ms timer fires
\* before that, and the 15 s timer fires when its time has come.
Tick(d) ==
    /\ ~ackTimeout
    /\ endTimer # END_TIMEOUT
    /\ \/ endTimer >= 0
       \/ \E q \in DOMAIN outPackets : outPackets[q].sentOnce
    /\ Done(Aged(Cur, d), "tick")

\* the next packet of the peer that has not arrived yet
NextInOrder == Cardinality(received) + 1

\* ------------------------------------------------------------------------
\* The receive path: the peer's packets arrive in any order and any number
\* of times, each acknowledging everything sent so far; the user sends
\* short messages; timers fire and time passes.
RecvNext ==
    \/ Listening
    \/ \E q \in PeerSeqs : RecvPacket(PeerPacket(q, outSeqSent))
    \/ Send(10, MaxRecvOutSeq)
    \/ AckTimerFires
    \/ FlushTick
    \/ Tick(1)

SpecRecv == Init /\ [][RecvNext]_vars

\* ------------------------------------------------------------------------
\* The send path: the peer completes the handshake and then only
\* acknowledges, with any ack value; once connected the user sends messages
\* of one and of seven packets; timers fire; events are RESEND_DELAY
\* seconds apart or simultaneous.
InitSend == InitConn /\ PeerIs(PeerHandshake)

\* ack values of an inbound packet: 0 stands for every value that is not
\* above outSeqAcked; the others go up to one past the last seq assigned
Acks == {0} \cup ((outSeqAcked + 1)..outSeq)

SendSizes == {10, 6 * MAX_PAYLOAD + 1}

SendNext ==
    \/ Listening
    \/ \E a \in Acks : inSeq < 2 /\ RecvPacket(PeerPacket(inSeq + 1, a))
    \/ \E a \in Acks : RecvPacket(PeerAck(a))
    \/ \E n \in SendSizes : state = "Connected" /\ Send(n, MaxSendOutSeq)
    \/ AckTimerFires
    \/ FlushTick
    \/ Tick(RESEND_DELAY)

SpecSend == InitSend /\ [][SendNext]_vars

\* ------------------------------------------------------------------------
\* Fragmentation and reassembly: the peer is given messages of sizes around
\* the multiples of MAX_PAYLOAD, and its packets arrive in seq order, once
\* each.
InitFrag == InitConn /\ PeerIs(PeerHandshake)

FragSizes ==
    {n \in {k * MAX_PAYLOAD + d : k \in 0..MaxFragPackets, d \in {-1, 0, 1}} :
        n >= 0 /\ n <= MaxFragPackets * MAX_PAYLOAD}

\* the peer's user calls send(data) with n bytes
PeerSends(n) ==
    /\ Len(peerMsgs) < MaxFragMsgs
    /\ LET p == PeerSendMessage([queue |-> peer, msgs |-> peerMsgs],
                                NewBuf(<<"peer", Len(peerMsgs) + 1>>, n))
       IN  peer' = p.queue /\ peerMsgs' = p.msgs
    /\ UNCHANGED <<connVars, outVars, received, dispLog, reackDue, rcvSeq, rcvAgain,
                   connects, teardown, procVars, tcp>>

FragNext ==
    \/ Listening
    \/ \E n \in FragSizes : PeerSends(n)
    \/ NextInOrder \in PeerSeqs /\ RecvPacket(PeerPacket(NextInOrder, outSeqSent))
    \/ AckTimerFires

SpecFrag == InitFrag /\ [][FragNext]_vars

\* ------------------------------------------------------------------------
\* The life of a connection: handshake, traffic, end() and destroy(), socket
\* errors and every timer.  The peer's packets arrive in seq order, any of
\* them again, acknowledging nothing new or all of what was transmitted; the
\* peer ends with a Disconnect; once connected the user sends one message.

\* the peer queues a Disconnect
PeerDisconnects(p) ==
    LET q == Cardinality(DOMAIN p.queue) + 1
    IN  [queue |-> [x \in (DOMAIN p.queue) \cup {q} |->
                      IF x \in DOMAIN p.queue THEN p.queue[x]
                      ELSE [type |-> "Disconnect", seqThis |-> q, packetsInMsg |-> 1,
                            msgStartSeq |-> q, msgSize |-> 0, payload |-> <<>>]],
         msgs |-> p.msgs]

InitLife == InitConn /\ PeerIs(PeerDisconnects(PeerHandshake))

\* ack values of a peer that acknowledges nothing new or all that was
\* transmitted
LifeAcks == {0, outSeqSent}

\* socket.on('error')
SocketError ==
    /\ socket # "closed"
    /\ Done(Emit(Emit(Emit(Cur, "error", "socket"), "close", 0), "end", 0), "socketError")

\* the user calls setTimeout(ms)
SetTimeout ==
    /\ ~timeoutTime
    /\ socket # "closed"
    /\ Done(setTimeout(Cur), "setTimeout")

\* the inactivity timer fires
TimeoutFires ==
    /\ timeout
    /\ Done(Emit([Cur EXCEPT !.timeout = FALSE], "timeout", 0), "timeout")

\* d seconds pass; the 500 ms interval, when it is set, has fired by then
Elapse(d) ==
    /\ ~ackTimeout
    /\ endTimer # END_TIMEOUT
    /\ \/ endTimer >= 0
       \/ \E q \in DOMAIN outPackets : outPackets[q].sentOnce
    /\ Done(IF flushInterval THEN flushOutgoingBuffer(Aged(Cur, d)) ELSE Aged(Cur, d),
            "elapse")

LifeNext ==
    \/ Listening
    \/ \E q \in PeerSeqs, a \in LifeAcks :
          q <= NextInOrder /\ RecvPacket(PeerPacket(q, a))
    \/ \E a \in LifeAcks : RecvPacket(PeerAck(a))
    \/ state = "Connected" /\ Send(10, MaxLifeOutSeq)
    \/ End
    \/ UserDestroy
    \/ SocketError
    \/ SetTimeout
    \/ TimeoutFires
    \/ AckTimerFires
    \/ FallbackFires
    \/ Elapse(RESEND_DELAY)

SpecLife == InitLife /\ [][LifeNext]_vars

\* ------------------------------------------------------------------------
\* The handshake for many challenges: the peer's Challenge carries any of
\* the values below, and nothing but the handshake is exchanged.
Halves == {0, 1, 4660, 22136, 32768, 42022, 57131, 65535}
Challenges == {Word(h, l) : h, l \in Halves}
Loads == {Word(0, 42), Word(65535, 65535)}

\* the peer whose Challenge carries this challenge and server load
PeerChallenging(challenge, load) ==
    [PeerHandshake EXCEPT !.queue[1].payload = <<U32(challenge), U32(load)>>]

InitShake ==
    InitConn /\ \E ch \in Challenges, l \in Loads : PeerIs(PeerChallenging(ch, l))

ShakeNext ==
    \/ Listening
    \/ \E q \in PeerSeqs, a \in LifeAcks :
          q <= NextInOrder /\ RecvPacket(PeerPacket(q, a))
    \/ AckTimerFires
    \/ End
    \/ Elapse(RESEND_DELAY)

SpecShake == InitShake /\ [][ShakeNext]_vars

\* The life of a connection in real time: the clock never stops, so time
\* passes again and again, and a timer whose time has come (the 10 ms timer
\* of queueAck, the 15 s timer of end()) is run by the event loop.  On a
\* destroyed connection the passing of time changes nothing any more.
TimePasses == last' = "elapse"
SpecLifeFair ==
    /\ SpecLife
    /\ WF_vars(AckTimerFires)
    /\ WF_vars(FallbackFires)
    /\ ([]<><<TimePasses>>_vars) \/ ([]<>(socket = "closed"))

\* ------------------------------------------------------------------------
\* The TCP stream: the other side sends payloads of up to MaxTcpLen bytes,
\* and the bytes it has written arrive in chunks of any size, each arrival
\* followed by the stream's 'readable' event.
MaxTcpFrames == 2
MaxTcpLen == 2
TcpBytes == {7, 9}
TcpPayloads ==
    UNION {[1..n -> TcpBytes] : n \in 0..MaxTcpLen}

\* the UDP connection is not touched
UdpIdle == UNCHANGED <<connVars, outVars, histVars, procVars>>

\* the other side calls send(data)
TcpSend(data) ==
    /\ Len(tcp.sent) < MaxTcpFrames
    /\ tcp' = [tcp EXCEPT !.inFlight = @ \o tcpSend(data), !.sent = Append(@, data)]
    /\ UdpIdle

\* the next k bytes arrive: 'readable', _readPacket
TcpArrive(k) ==
    /\ k <= Len(tcp.inFlight)
    /\ tcp' = readPacket([tcp EXCEPT !.readable = @ \o SubSeq(tcp.inFlight, 1, k),
                                     !.inFlight = SubSeq(@, k + 1, Len(@))])
    /\ UdpIdle

InitTcp == InitConn /\ PeerIs(PeerHandshake)

TcpNext ==
    \/ \E data \in TcpPayloads : TcpSend(data)
    \/ \E k \in 1..(8 + MaxTcpLen) : TcpArrive(k)

SpecTcp == InitTcp /\ [][TcpNext]_vars

\* The TCP stream with a bad header in it: at some point the other side
\* writes 8 bytes whose magic is 'VT02', declaring any length, and goes on
\* sending.
BadLengths == {0, 1, 2130706432}
BadHeaders == {writeUInt32LE(n) \o <<86, 84, 48, 50>> : n \in BadLengths}

TcpWritesBad(header) ==
    /\ ~tcp.bad
    /\ tcp' = [tcp EXCEPT !.inFlight = @ \o header, !.bad = TRUE]
    /\ UdpIdle

TcpBadNext ==
    \/ \E data \in TcpPayloads : TcpSend(data)
    \/ \E header \in BadHeaders : TcpWritesBad(header)
    \/ \E k \in 1..(8 + MaxTcpLen) : TcpArrive(k)

SpecTcpBad == InitTcp /\ [][TcpBadNext]_vars

\* ------------------------------------------------------------------------
\* Encrypted traffic.  After the handshake the owner sets the session key;
\* the peer sends short messages, each either encrypted under the key or
\* not (and so not decryptable); its packets arrive in seq order, any of
\* them again.
MaxCryptMsgs == 2
CryptSizes == {0, 10, MAX_PAYLOAD}

\* the peer calls send(data) with its session key set or unset
PeerSendMessageKeyed(p, data, keyed) ==
    LET first == Cardinality(DOMAIN p.queue) + 1
        sent == sendMessage([Sender(first) EXCEPT !.sessionKey = keyed],
                            "Data", data).outPackets
    IN  [queue |-> [q \in (DOMAIN p.queue) \cup (DOMAIN sent) |->
                      IF q \in DOMAIN p.queue THEN p.queue[q]
                      ELSE [type |-> sent[q].type, seqThis |-> sent[q].seqThis,
                            packetsInMsg |-> sent[q].packetsInMsg,
                            msgStartSeq |-> sent[q].msgStartSeq,
                            msgSize |-> sent[q].msgSize,
                            payload |-> sent[q].payload]],
         msgs |-> Append(p.msgs, [first |-> first, data |-> data])]

PeerSendsKeyed(n, keyed) ==
    /\ Len(peerMsgs) < MaxCryptMsgs
    /\ LET p == PeerSendMessageKeyed([queue |-> peer, msgs |-> peerMsgs],
                                     NewBuf(<<"peer", Len(peerMsgs) + 1>>, n), keyed)
       IN  peer' = p.queue /\ peerMsgs' = p.msgs
    /\ UNCHANGED <<connVars, outVars, received, dispLog, reackDue, rcvSeq, rcvAgain,
                   connects, teardown, procVars, tcp>>

\* the owner sets connection.sessionKey once the connection is up
SetSessionKey ==
    /\ state = "Connected" /\ ~sessionKey
    /\ Done([Cur EXCEPT !.sessionKey = TRUE], "sessionKey")

CryptNext ==
    \/ Listening
    \/ \E n \in CryptSizes, keyed \in BOOLEAN : PeerSendsKeyed(n, keyed)
    \/ \E q \in PeerSeqs : q <= NextInOrder /\ RecvPacket(PeerPacket(q, outSeqSent))
    \/ SetSessionKey
    \/ AckTimerFires

SpecCrypt == InitFrag /\ [][CryptNext]_vars

\* ------------------------------------------------------------------------
\* Calls in the wrong state: the user calls connect() and end() at any
\* time, and destroy(); the peer's packets arrive in order; no time passes.
MaxSockets == 3

\* the user calls connect(options) again
ConnectAgain ==
    /\ sockets < MaxSockets
    /\ Done(connect(Cur), "connect")

\* the user calls end() in whatever state
EndAnyState == Done(end(Cur), "end")

CallsNext ==
    \/ Listening
    \/ \E q \in PeerSeqs : q <= NextInOrder /\ RecvPacket(PeerPacket(q, outSeqSent))
    \/ AckTimerFires
    \/ ConnectAgain
    \/ EndAnyState
    \/ UserDestroy

SpecCalls == InitLife /\ [][CallsNext]_vars

\* ------------------------------------------------------------------------
\* Several UDPConnection instances in one process: others call connect()
\* and their sockets get bound while this one connects, is destroyed and
\* connects again.  An instance of others is its socket and its
\* sourceConnID; its traffic is not followed.
MaxOthers == 2

OthersIdle == UNCHANGED <<connVars, outVars, histVars, tcp, facade, proxy>>

\* connect() of another instance (lines 151-167)
OtherConnect ==
    /\ Len(others) < MaxOthers
    /\ others' = Append(others, [socket |-> "binding", sourceConnID |-> gSourceConnID])
    /\ attempts' = Append(attempts, gSourceConnID)
    /\ gSourceConnID' = gSourceConnID
    /\ OthersIdle

\* socket.on('listening') of another instance (lines 186-193)
OtherListening(i) ==
    /\ others[i].socket = "binding"
    /\ others' = [others EXCEPT ![i].socket = "listening"]
    /\ gSourceConnID' = gSourceConnID + 256
    /\ attempts' = attempts
    /\ OthersIdle

IdsNext ==
    \/ Listening
    \/ NextInOrder \in PeerSeqs /\ RecvPacket(PeerPacket(NextInOrder, outSeqSent))
    \/ UserDestroy
    \/ socket = "closed" /\ ConnectAgain
    \/ OtherConnect
    \/ \E i \in 1..Len(others) : OtherListening(i)

SpecIds == InitFrag /\ [][IdsNext]_vars

\* ------------------------------------------------------------------------
\* Proxy CONNECT attempts: one request of TCPConnection.connect and one of
\* the agent; each request emits connect (with any status), timeout (while
\* its timeout is set) and error, in any order and any number of times, up
\* to MaxProxyEvents events.
MaxProxyEvents == 3
StatusCodes == {200, 407}

ProxyIdle ==
    UNCHANGED <<connVars, outVars, histVars, gSourceConnID, others, attempts, tcp, facade>>

TcpProxyConnect ==
    /\ ~proxy.tcp.started
    /\ proxy' = [proxy EXCEPT !.tcp = tcpProxyConnect(@)]
    /\ ProxyIdle

TcpReqConnect(statusCode) ==
    /\ proxy.tcp.started /\ proxy.tcp.handled < MaxProxyEvents
    /\ proxy' = [proxy EXCEPT
                    !.tcp = tcpOnConnect(Arriving(@, @.handled + 1), statusCode,
                                         @.handled + 1)]
    /\ ProxyIdle

TcpReqTimeout ==
    /\ proxy.tcp.started /\ proxy.tcp.timer /\ proxy.tcp.handled < MaxProxyEvents
    /\ proxy' = [proxy EXCEPT !.tcp = tcpOnTimeout(Handling(@))]
    /\ ProxyIdle

TcpReqError ==
    /\ proxy.tcp.started /\ proxy.tcp.handled < MaxProxyEvents
    /\ proxy' = [proxy EXCEPT !.tcp = tcpOnError(Handling(@))]
    /\ ProxyIdle

AgentCreateConnection(secure) ==
    /\ ~proxy.agent.started
    /\ proxy' = [proxy EXCEPT !.agent = createConnection(@, secure)]
    /\ ProxyIdle

AgentReqConnect(statusCode) ==
    /\ proxy.agent.started /\ proxy.agent.handled < MaxProxyEvents
    /\ proxy' = [proxy EXCEPT
                    !.agent = agentOnConnect(Arriving(@, @.handled + 1), statusCode,
                                             @.handled + 1)]
    /\ ProxyIdle

AgentReqTimeout ==
    /\ proxy.agent.started /\ proxy.agent.timer /\ proxy.agent.handled < MaxProxyEvents
    /\ proxy' = [proxy EXCEPT !.agent = agentOnFailure(Handling(@), "timeout")]
    /\ ProxyIdle

AgentReqError ==
    /\ proxy.agent.started /\ proxy.agent.handled < MaxProxyEvents
    /\ proxy' = [proxy EXCEPT !.agent = agentOnFailure(Handling(@), "error")]
    /\ ProxyIdle

AgentSecureConnect(authorized) ==
    /\ proxy.agent.tls # 0
    /\ proxy' = [proxy EXCEPT !.agent = agentOnSecureConnect(@, authorized)]
    /\ ProxyIdle

AgentTlsError ==
    /\ proxy.agent.tls # 0
    /\ proxy' = [proxy EXCEPT !.agent = onTlsError(@)]
    /\ ProxyIdle

ProxyNext ==
    \/ TcpProxyConnect
    \/ \E statusCode \in StatusCodes : TcpReqConnect(statusCode)
    \/ TcpReqTimeout
    \/ TcpReqError
    \/ \E secure \in BOOLEAN : AgentCreateConnection(secure)
    \/ \E statusCode \in StatusCodes : AgentReqConnect(statusCode)
    \/ AgentReqTimeout
    \/ AgentReqError
    \/ \E authorized \in BOOLEAN : AgentSecureConnect(authorized)
    \/ AgentTlsError

SpecProxy == InitFrag /\ [][ProxyNext]_vars

\* ------------------------------------------------------------------------
\* The facade alone: the user connects and disconnects, transports fail and
\* encryption handshakes complete, in any order.
MaxFacadeConnects == 4
FacadeServers == 1..3

FacadeIdle ==
    UNCHANGED <<connVars, outVars, histVars, gSourceConnID, others, attempts, tcp, proxy>>

FacadeConnect(server, autoRetry) ==
    /\ facade.connects < MaxFacadeConnects
    /\ facade' = facadeConnect(facade, server, autoRetry)
    /\ FacadeIdle

FacadeTransportError(server) ==
    /\ facade.active
    /\ Swallows(facade) => facade.connects < MaxFacadeConnects
    /\ facade' = facadeOnError(facade, server)
    /\ FacadeIdle

FacadeHandshakeDone ==
    /\ facade.active /\ ~facade.connected
    /\ facade' = facadeOnHandshake(facade)
    /\ FacadeIdle

FacadeDisconnect ==
    /\ facade.active
    /\ facade' = facadeDisconnect(facade)
    /\ FacadeIdle

FacadeNext ==
    \/ \E server \in FacadeServers, autoRetry \in BOOLEAN : FacadeConnect(server, autoRetry)
    \/ \E server \in FacadeServers : FacadeTransportError(server)
    \/ FacadeHandshakeDone
    \/ FacadeDisconnect

SpecFacade == InitFrag /\ [][FacadeNext]_vars

\* ------------------------------------------------------------------------
\* Datagrams that fail one of handlePacket's tests: next to the peer's
\* packets, which arrive in seq order, datagrams arrive that are one of the
\* peer's packets with one thing wrong (another source id counts as wrong
\* once remoteConnID is set); the user sends short messages.
MaxDropOutSeq == 3

Defects == {"magic", "big", "type", "source", "dest", "other", "length"}

\* the datagram pkt with the defect d: another magic, a payload_len of 1245,
\* the type Max, another source or destination connection id, both ids
\* another's (a datagram of some other connection), or a payload_len one
\* more than the bytes that follow the header
Defective(pkt, d) ==
    CASE d = "magic" -> [pkt EXCEPT !.magic = "VT01"]
      [] d = "big" -> [pkt EXCEPT !.payloadSize = MAX_PAYLOAD + 1,
                                  !.payload = NewBuf(<<"big", 0>>, MAX_PAYLOAD + 1)]
      [] d = "type" -> [pkt EXCEPT !.type = "Max"]
      [] d = "source" -> [pkt EXCEPT !.sourceConnID = remoteConnID + 1]
      [] d = "dest" -> [pkt EXCEPT !.destConnID = g_SourceConnID + 256]
      [] d = "other" -> [pkt EXCEPT !.sourceConnID = Peer.connID + 1,
                                    !.destConnID = g_SourceConnID + 256]
      [] d = "length" -> [pkt EXCEPT !.payloadSize = BufLen(pkt.payload) + 1]

\* socket.on('message') with a datagram that fails a test: handlePacket(msg);
\* the step is called by the defect
RecvDefective(pkt, d) ==
    /\ socket = "listening"
    /\ Commit(handlePacket(Cur, pkt), d)
    /\ received' = received
    /\ rcvSeq' = 0 /\ rcvAgain' = FALSE
    /\ reackDue' = IF IsDuplicate(Cur, pkt) THEN TRUE
                   ELSE IF handlePacket(Cur, pkt).wire # <<>> THEN FALSE ELSE reackDue

DropNext ==
    \/ Listening
    \/ \E n \in {10, MAX_PAYLOAD + 1} : PeerSends(n)
    \/ \E a \in LifeAcks :
          NextInOrder \in PeerSeqs /\ RecvPacket(PeerPacket(NextInOrder, a))
    \/ \E q \in PeerSeqs, a \in LifeAcks, d \in Defects :
          /\ q <= NextInOrder
          /\ d = "source" => remoteConnID > 0
          /\ RecvDefective(Defective(PeerPacket(q, a), d), d)
    \/ state = "Connected" /\ Send(10, MaxDropOutSeq)
    \/ AckTimerFires

SpecDrop == InitFrag /\ [][DropNext]_vars

\* ------------------------------------------------------------------------
\* Properties of the receive path.

\* the first seqs of the peer's messages, a message's seqs, and the bytes the
\* peer handed to its sendMessage
PeerStarts == {q \in PeerSeqs : peer[q].msgStartSeq = q}
MsgSeqs(s) == s..(s + peer[s].packetsInMsg - 1)
PeerOriginal(s) ==
    IF \E i \in 1..Len(peerMsgs) : peerMsgs[i].first = s
    THEN peerMsgs[CHOOSE i \in 1..Len(peerMsgs) : peerMsgs[i].first = s].data
    ELSE peer[s].payload
Dispatches(s) == {i \in 1..Len(dispLog) : dispLog[i].start = s}

\* C1: messages are handed to handleMessage in strictly ascending order of
\* their first seq, and a message is handed over only when every packet
\* with a lower seq has arrived.
C1_DispatchInOrder ==
    /\ \A i, j \in 1..Len(dispLog) : i < j => dispLog[i].start < dispLog[j].start
    /\ \A i \in 1..Len(disp) : \A q \in 1..(disp[i].start - 1) : q \in received

\* C2: once every packet of a multi-packet message (and every packet before
\* it) has arrived, in whatever order, the message has been dispatched
\* exactly once with the sender's bytes; nothing of a message is dispatched
\* while its first packet is missing.
C2_ReorderedMessage ==
    /\ \A s \in PeerStarts :
          (peer[s].packetsInMsg > 1 /\ \A q \in 1..(s + peer[s].packetsInMsg - 1) : q \in received)
          => /\ Cardinality(Dispatches(s)) = 1
             /\ \A i \in Dispatches(s) : dispLog[i].payload = PeerOriginal(s)
    /\ \A i \in 1..Len(dispLog) : dispLog[i].start \in received

\* C3: inSeq is the largest n with every seq in 1..n received, and no packet
\* on the wire acknowledges a seq that has not arrived with all below it.
C3_InSeqIsContiguousPrefix ==
    /\ \A q \in 1..inSeq : q \in received
    /\ (inSeq + 1) \notin received
    /\ \A i \in 1..Len(wire) : \A q \in 1..wire[i].ack : q \in received

\* C8: no message of the peer is handed to handleMessage more than once,
\* however often its packets arrive.
C8_DispatchedAtMostOnce ==
    \A i, j \in 1..Len(dispLog) : i # j => dispLog[i].start # dispLog[j].start

\* A packet arrives again, gets past the already-acked test into the
\* buffer, and its message had been dispatched.
C8_Witness ==
    /\ last = "message" /\ rcvAgain /\ ~reackDue
    /\ rcvSeq > inSeqAcked
    /\ Dispatches(peer[rcvSeq].msgStartSeq) # {}

\* C9: after a packet was dropped as already acked and nothing has been sent
\* since, the deferred-ack timer sends one pure-ack Datagram with
\* ack = inSeq.
C9_ReackOnDuplicate ==
    [][(reackDue /\ last' = "ackTimer")
        => (Len(wire') = 1 /\ wire'[1].type = "Datagram" /\ wire'[1].ack = inSeq')]_vars

\* ------------------------------------------------------------------------
\* Properties of the send path.

\* the queued packets that are on the wire and not acknowledged
InFlight == {q \in DOMAIN outPackets : outPackets[q].sentOnce /\ q > outSeqAcked}

\* C5: at most AHEAD_COUNT queued packets have been transmitted and have a
\* seq above outSeqAcked.
C5_WindowBound == Cardinality(InFlight) <= AHEAD_COUNT

\* the window is full: AHEAD_COUNT packets in flight and more waiting
C5_Witness ==
    /\ Cardinality(InFlight) = AHEAD_COUNT
    /\ \E q \in DOMAIN outPackets : ~outPackets[q].sentOnce

\* C6: a packet transmitted for the first time has a seq of at most
\* outSeqAcked + AHEAD_COUNT.
C6_FirstSendInsideWindow ==
    \A i \in 1..Len(wire) :
        (wire[i].first /\ wire[i].seq > 0) => wire[i].seq <= outSeqAcked + AHEAD_COUNT

\* C7: a packet is transmitted for the first time only when every queued
\* packet with a lower seq has been transmitted.
C7_FirstSendInSeqOrder ==
    \A i \in 1..Len(wire) :
        (wire[i].first /\ wire[i].seq > 0)
        => \A q \in DOMAIN outPackets : q < wire[i].seq => outPackets[q].sentOnce

\* C10: outSeqAcked <= outSeqSent <= outSeq - 1.
C10_OutCountersOrdered == outSeqAcked <= outSeqSent /\ outSeqSent <= outSeq - 1

\* ------------------------------------------------------------------------
\* Fragmentation.

\* the least k >= 1 with k * MAX_PAYLOAD >= n
PacketsFor(n) ==
    CHOOSE k \in 1..(n + 1) :
        k * MAX_PAYLOAD >= n /\ (k = 1 \/ (k - 1) * MAX_PAYLOAD < n)

\* C4: a message of n bytes handed to sendMessage when outSeq = first is
\* queued as max(1, ceil(n / MAX_PAYLOAD)) packets with the seqs from first
\* on, all with msgStartSeq = first, the same packetsInMsg and msgSize = n,
\* and payloads of at most MAX_PAYLOAD bytes; once the receiver has got them
\* all (in seq order) it has dispatched that message once, with the bytes of
\* the original, and it dispatches nothing of it before.
C4_FragmentAndReassemble ==
    \A i \in 1..Len(peerMsgs) :
        LET first == peerMsgs[i].first
            n == BufLen(peerMsgs[i].data)
            seqs == first..(first + PacketsFor(n) - 1)
        IN  /\ {q \in PeerSeqs : peer[q].msgStartSeq = first} = seqs
            /\ \A q \in seqs :
                  /\ peer[q].seqThis = q
                  /\ peer[q].type = "Data"
                  /\ peer[q].packetsInMsg = PacketsFor(n)
                  /\ peer[q].msgSize = n
                  /\ BufLen(peer[q].payload) <= MAX_PAYLOAD
            /\ i < Len(peerMsgs) => peerMsgs[i + 1].first = first + PacketsFor(n)
            /\ IF seqs \subseteq received
               THEN /\ Cardinality(Dispatches(first)) = 1
                    /\ \A d \in Dispatches(first) :
                          /\ dispLog[d].type = "Data"
                          /\ dispLog[d].payload = peerMsgs[i].data
               ELSE Dispatches(first) = {}

\* the last packet of a message of three packets, the last one byte long, has
\* just arrived and the message was dispatched
C4_Witness ==
    \E i \in 1..Len(peerMsgs) :
        /\ BufLen(peerMsgs[i].data) = 2 * MAX_PAYLOAD + 1
        /\ last = "message"
        /\ rcvSeq = peerMsgs[i].first + 2
        /\ Len(disp) = 1 /\ disp[1].start = peerMsgs[i].first
        /\ disp[1].payload = peerMsgs[i].data

\* ------------------------------------------------------------------------
\* The inbound counters.

Destroyed ==
    /\ state' = "Disconnected"
    /\ socket' = "closed"
    /\ \E i \in 1..(Len(events') - 1) :
          events'[i].name = "close" /\ events'[i + 1].name = "end"

\* the step handed a message of this type to handleMessage
Handled(type) == \E i \in 1..Len(disp') : disp'[i].type = type

\* the arrows of the machine as drawn
DrawnArrow ==
    \/ state = "Disconnected" /\ state' = "ChallengeReqSent" /\ last' = "listening"
    \/ state = "ChallengeReqSent" /\ state' = "ConnectSent" /\ Handled("Challenge")
    \/ state = "ConnectSent" /\ state' = "Connected" /\ Handled("Accept")
    \/ state = "Connected" /\ state' = "Disconnecting" /\ last' = "end"
    \/ Destroyed

\* C12 as stated: the state changes only along the drawn arrows.
C12_OnlyDrawnArrows == [][state' # state => DrawnArrow]_vars

\* C12: the state changes only along the drawn arrows and along one more:
\* end() called in ConnectSent also leads to Disconnecting (only
\* ChallengeReqSent, Disconnected and Disconnecting are treated apart by
\* end()).
C12_ArrowsWithEndInConnectSent ==
    [][state' # state
        => \/ DrawnArrow
           \/ state = "ConnectSent" /\ state' = "Disconnecting" /\ last' = "end"]_vars

\* end() has been called in ConnectSent: Disconnecting with no flush interval
C12_Witness == state = "Disconnecting" /\ last = "end" /\ ~flushInterval

\* ------------------------------------------------------------------------
\* The handshake's values.

\* bit i of x, and r = a XOR b on 16-bit values, bit by bit
BitAt(x, i) == (x \div (2 ^ i)) % 2
IsXor16(r, a, b) ==
    /\ r \in 0..65535
    /\ \A i \in 0..15 : BitAt(r, i) = (IF BitAt(a, i) = BitAt(b, i) THEN 0 ELSE 1)

\* the challenge and server load of the peer's Challenge, and the Connect
\* packets queued or put on the wire by the last handler
PeerChallenge == peer[1].payload[1].val
PeerLoad == peer[1].payload[2].val
ConnectPackets ==
    {outPackets[q] : q \in {x \in DOMAIN outPackets : outPackets[x].type = "Connect"}}
    \cup {wire[i] : i \in {x \in 1..Len(wire) : wire[x].type = "Connect"}}

\* C13: the handler that gets the Challenge in ChallengeReqSent puts one
\* Connect on the wire; every Connect carries the 4 bytes of
\* (challenge XOR CHALLENGE_MASK) as one unsigned little-endian word; connect
\* is emitted at most once, with the server load, and has been emitted when
\* the state is Connected.
C13_ConnectMasksChallenge ==
    /\ (last = "message" /\ state = "ConnectSent" /\ \E i \in 1..Len(disp) : disp[i].type = "Challenge")
          => Cardinality({i \in 1..Len(wire) : wire[i].type = "Connect"}) = 1
    /\ \A p \in ConnectPackets :
          /\ p.msgSize = 4 /\ Len(p.payload) = 1 /\ p.payload[1].kind = "u32"
          /\ IsXor16(p.payload[1].val.hi, PeerChallenge.hi, 42022)
          /\ IsXor16(p.payload[1].val.lo, PeerChallenge.lo, 57131)
    /\ Len(connects) <= 1
    /\ \A i \in 1..Len(connects) : connects[i] = PeerLoad
    /\ state = "Connected" => connects = <<PeerLoad>>

\* the scenario's Challenge: challenge 0x12345678, server load 42
HappyPeer == PeerChallenge = Word(4660, 22136) /\ PeerLoad = Word(0, 42)

\* C14 as stated: ChallengeReq has seq 0, the Connect payload is 0xB613A953,
\* connect(42) is emitted.
C14_HappyHandshakeAsStated ==
    HappyPeer =>
        /\ \A i \in 1..Len(wire) : wire[i].type = "ChallengeReq" => wire[i].seq = 0
        /\ \A p \in ConnectPackets : p.payload = <<U32(Word(46611, 43347))>>
        /\ state = "Connected" => connects = <<Word(0, 42)>>

\* C14: the ChallengeReq carries seq 1 (it is the first sequenced packet;
\* only pure-ack Datagrams carry seq 0); for challenge 0x12345678 the
\* Connect payload is 0xB6128953; after Accept connect(42) has been emitted.
C14_HappyHandshake ==
    HappyPeer =>
        /\ \A i \in 1..Len(wire) : wire[i].type = "ChallengeReq" => wire[i].seq = 1
        /\ \A p \in ConnectPackets : p.payload = <<U32(Word(46610, 35155))>>
        /\ state = "Connected" => connects = <<Word(0, 42)>>

\* the scenario has run to its end: the Accept has just been handled
C14_Witness ==
    /\ HappyPeer
    /\ state = "Connected" /\ last = "message"
    /\ \E i \in 1..Len(events) : events[i].name = "connect" /\ events[i].arg = Word(0, 42)

\* ------------------------------------------------------------------------
\* Timers.

\* the packets that have been transmitted and are still in the buffer
Unacked == {q \in DOMAIN outPackets : outPackets[q].sentOnce}

\* C15: whenever time has passed on a live connection, whatever its state,
\* no transmitted packet is left 3 s after its last transmission without
\* having been retransmitted, nor 15 s after its first transmission without
\* the connection having been destroyed.
C15_UnackedResentOrTimedOut ==
    (last = "elapse" /\ socket # "closed") =>
        \A q \in Unacked :
            /\ outPackets[q].sinceSent < RESEND_DELAY
            /\ outPackets[q].sinceFirst < ACK_TIMEOUT

\* ------------------------------------------------------------------------
\* What a transmission leaves behind.

\* the pure-ack Datagram sendPacket builds
AckDatagram ==
    [sentOnce |-> FALSE, sinceFirst |-> 0, sinceSent |-> 0, type |-> "Datagram",
     seqThis |-> 0, packetsInMsg |-> 0, msgStartSeq |-> 0, msgSize |-> 0,
     payload |-> <<>>]

\* the packets sendPacketOverWire can be called with in this state
Sendable == {outPackets[q] : q \in DOMAIN outPackets} \cup {AckDatagram}

\* the largest element of a non-empty set of numbers
Largest(S) == CHOOSE m \in S : \A x \in S : x <= m

\* r is what transmitting packet p leaves of connection c
EmissionOk(c, p, r) ==
    /\ Len(r.wire) = Len(c.wire) + 1
    /\ r.wire[Len(r.wire)].seq = p.seqThis
    /\ r.wire[Len(r.wire)].ack = c.inSeq
    /\ r.inSeq = c.inSeq /\ r.inSeqAcked = c.inSeq
    /\ ~r.ackTimeout
    /\ r.outSeqSent = Largest({c.outSeqSent, p.seqThis})
    /\ \A q \in DOMAIN c.outPackets :
          IF q = p.seqThis
          THEN /\ r.outPackets[q].sentOnce
               /\ r.outPackets[q].sinceSent = 0
               /\ r.outPackets[q].sinceFirst = (IF p.sentOnce THEN p.sinceFirst ELSE 0)
          ELSE r.outPackets[q] = c.outPackets[q]

\* the handler that just ran: each packet it transmitted is left as
\* transmitted just now, first sent just now unless it had been sent before
HandlerEmissions ==
    /\ \A i \in 1..Len(wire') :
          /\ wire'[i].ack >= inSeq /\ wire'[i].ack <= inSeq'
          /\ (wire'[i].seq \in DOMAIN outPackets') =>
                /\ outPackets'[wire'[i].seq].sentOnce
                /\ outPackets'[wire'[i].seq].sinceSent = 0
                /\ outPackets'[wire'[i].seq].sinceFirst # 0 =>
                      /\ wire'[i].seq \in DOMAIN outPackets
                      /\ outPackets[wire'[i].seq].sentOnce
                      /\ ~wire'[i].first
    /\ wire' # <<>> =>
          /\ inSeqAcked' = wire'[Len(wire')].ack
          /\ (last' # "message") => (~ackTimeout' /\ inSeqAcked' = inSeq')
    /\ outSeqSent' = Largest({outSeqSent} \cup {wire'[i].seq : i \in 1..Len(wire')})

\* C16: transmitting any packet of the buffer, or a pure-ack Datagram, on
\* an open socket puts it on the wire with ack = inSeq and leaves
\* inSeqAcked = inSeq, no 10 ms timer pending, outSeqSent the larger of its
\* old value and the packet's seq, firstSent set only if it was unset and
\* sent set to now; and every handler leaves its transmissions that way.
C16_EmissionBookkeeping ==
    /\ [](socket = "listening" =>
            \A p \in Sendable : EmissionOk(Cur, p, SendPacketOverWire(Cur, p)))
    /\ [][HandlerEmissions]_vars

\* a packet below outSeqSent has gone out a second time, acking packet 2
C16_Witness ==
    /\ inSeq >= 2
    /\ \E i \in 1..Len(wire) :
          /\ ~wire[i].first /\ wire[i].seq < outSeqSent /\ wire[i].ack = inSeq

\* ------------------------------------------------------------------------
\* The deferred ack.

\* the handlers that are not the receipt of a packet
LocalHandlers == {"listening", "send", "end", "flushTick", "elapse", "ackTimer"}

\* the 10 ms timer has just run with something to acknowledge / with nothing
AckTimerStep ==
    /\ (last' = "ackTimer" /\ socket = "listening" /\ inSeqAcked < inSeq) =>
          /\ Len(wire') = 1
          /\ wire'[1].type = "Datagram" /\ wire'[1].seq = 0 /\ wire'[1].ack = inSeq
          /\ wire'[1].payload = <<>>
          /\ inSeqAcked' = inSeq' /\ inSeq' = inSeq /\ ~ackTimeout'
    /\ (last' = "ackTimer" /\ inSeqAcked = inSeq) => (wire' = <<>> /\ ~ackTimeout')

\* a packet has gone out first: it carries the ack and stops the timer
PiggyBackStep ==
    (last' \in LocalHandlers \ {"ackTimer"} /\ wire' # <<>> /\ socket' = "listening") =>
        /\ \A i \in 1..Len(wire') : wire'[i].type # "Datagram" /\ wire'[i].ack = inSeq
        /\ inSeqAcked' = inSeq' /\ inSeq' = inSeq /\ ~ackTimeout'

\* C17: on a connection that has not been destroyed, an inSeq that is not
\* yet acknowledged always has the 10 ms timer pending; when the timer
\* fires first it sends one pure-ack Datagram with ack = inSeq and leaves
\* nothing to acknowledge; when a packet is sent first that packet carries
\* ack = inSeq and the timer is cancelled, so no Datagram follows for that
\* advance; a timer that fires with nothing to acknowledge sends nothing.
C17_DeferredAck ==
    /\ []((socket = "listening" /\ inSeqAcked < inSeq) => ackTimeout)
    /\ [][AckTimerStep /\ PiggyBackStep]_vars

\* the timer has fired after packet 3 came in and has sent the Datagram
C17_Witness ==
    /\ last = "ackTimer" /\ inSeq >= 3
    /\ Len(wire) = 1 /\ wire[1].type = "Datagram" /\ wire[1].ack = inSeq

\* ------------------------------------------------------------------------
\* The graceful end.

\* the handler that just ran met a packet 15 s old and gave the connection up
TimedOut ==
    /\ state' = "Disconnected"
    /\ \E i \in 1..Len(events') :
          events'[i].name = "error" /\ events'[i].arg = "Connection timed out"

\* end() has run in Connected: the Disconnect is queued and the 15 s timer
\* started; the state is Disconnecting unless the flush of that very call
\* met the ack timeout
EndStep ==
    (last' = "end" /\ state = "Connected") =>
        /\ ~threw'
        /\ state' = "Disconnecting" \/ TimedOut
        /\ outSeq' = outSeq + 1
        /\ outSeq \in DOMAIN outPackets' /\ outPackets'[outSeq].type = "Disconnect"
        /\ endTimer' = 0

\* a packet of the peer has been handled while Disconnecting: the connection
\* is destroyed by it if it acknowledges the last outbound packet, and,
\* unless it brought the peer's own Disconnect or the ack timeout struck,
\* only then
AckPathStep ==
    (last' = "message" /\ state = "Disconnecting" /\ ~threw') =>
        /\ (outSeqAcked' > outSeqAcked /\ outSeqAcked' >= outSeq' - 1)
              => state' = "Disconnected"
        /\ (/\ state' = "Disconnected"
            /\ ~Handled("Disconnect")
            /\ ~TimedOut)
              => outSeqAcked' >= outSeq' - 1

\* the 15 s timer of end() has fired while Disconnecting
FallbackStep ==
    (last' = "endTimer" /\ state = "Disconnecting") =>
        (state' = "Disconnected" /\ socket' = "closed")

\* C18: end() in Connected sets Disconnecting and queues a Disconnect; a
\* packet of the peer destroys the connection when it acknowledges every
\* outbound packet, the Disconnect included, and not before; while
\* Disconnecting the 15 s timer is running, and it destroys the connection
\* otherwise; Disconnecting always leads to Disconnected.
C18_GracefulEnd ==
    /\ [][EndStep /\ AckPathStep /\ FallbackStep]_vars
    /\ [](state = "Disconnecting" => (endTimer >= 0 /\ endTimer <= END_TIMEOUT))
    /\ (state = "Disconnecting") ~> (state = "Disconnected")

\* the peer's ack of the Disconnect has just destroyed the connection
C18_Witness ==
    /\ last = "message" /\ state = "Disconnected" /\ endTimer >= 0
    /\ disp = <<>> /\ outSeqAcked = outSeq - 1
    /\ \A i \in 1..Len(events) : events[i].name # "error"

\* ------------------------------------------------------------------------
\* After destroy().

\* the callbacks of the connection's timers
TimerHandlers == {"ackTimer", "flushTick", "elapse", "endTimer", "timeout"}

\* destroy() has run
DestroyStep ==
    (last' = "destroy") =>
        /\ state' = "Disconnected" /\ socket' = "closed"
        /\ Len(events') = 2
        /\ events'[1].name = "close" /\ events'[2].name = "end"

\* a timer has run on a destroyed connection
TimerAfterDestroy ==
    (socket = "closed" /\ last' \in TimerHandlers) =>
        (wire' = <<>> /\ events' = <<>> /\ ~threw')

\* C19: destroy() sets Disconnected, closes the socket and emits close then
\* end; on a destroyed connection no timer (10 ms ack, 500 ms flush, 15 s
\* fallback, inactivity) sends a packet, tries to, or emits an event.
C19_DestroyStopsTimers == [][DestroyStep /\ TimerAfterDestroy]_vars

\* ------------------------------------------------------------------------
\* The socket's error.

\* the socket's 'error' handler has run
SocketErrorStep ==
    (last' = "socketError") =>
        /\ Len(events') = 3
        /\ events'[1].name = "error" /\ events'[2].name = "close"
        /\ events'[3].name = "end"
        \* connect() raises "Already connected" in any other state
        /\ state' = "Disconnected"

\* what runs next by itself (a timer, the receipt of a packet) is silent
AfterSocketError ==
    (last = "socketError" /\ last' \in TimerHandlers \cup {"message"}) =>
        (wire' = <<>> /\ events' = <<>>)

\* C20: a socket error emits error, close, end and leaves the connection
\* Disconnected, so that connect() can be called again; what runs after it
\* sends no packet and emits no event.
C20_SocketErrorIsTerminal == [][SocketErrorStep /\ AfterSocketError]_vars

\* ------------------------------------------------------------------------
\* Calls in the wrong state.

\* the six sequence counters
SeqCounters == <<outSeq, outSeqSent, outSeqAcked, inSeq, inSeqAcked, inSeqHandled>>

\* connect() has run while the instance had a socket bound or being bound
ConnectAgainStep ==
    (last' = "connect" /\ socket \in {"binding", "listening"}) =>
        /\ threw'
        /\ sockets' = sockets /\ socket' = socket
        /\ SeqCounters' = SeqCounters

\* end() has run in Disconnected or Disconnecting
EndAgainStep ==
    (last' = "end" /\ state \in {"Disconnected", "Disconnecting"}) =>
        /\ threw'
        /\ wire' = <<>> /\ outPackets' = outPackets
        /\ state' = state

\* C21: connect() on an instance whose connection is established or in
\* progress raises, creates no socket and leaves the sequence counters;
\* end() in Disconnected or Disconnecting raises and sends nothing.
C21_CallsInWrongState == [][ConnectAgainStep /\ EndAgainStep]_vars

\* ------------------------------------------------------------------------
\* Decryption.

\* the Data messages the last handler dispatched in Connected with a key set
\* whose decryption failed / succeeded; the events of a name it emitted
FailedIn(d) == {i \in 1..Len(d) : d[i].type = "Data" /\ ~Decryptable(d[i].payload)}
EventsNamed(evs, name) == {i \in 1..Len(evs) : evs[i].name = name}

\* a handler has dispatched Data messages while Connected with the key set
DecryptStep ==
    (last' = "message" /\ peer' = peer /\ state = "Connected" /\ sessionKey) =>
        /\ Cardinality(EventsNamed(events', "encryptionError"))
              = Cardinality(FailedIn(disp'))
        /\ Cardinality(EventsNamed(events', "packet"))
              = Cardinality({i \in 1..Len(disp') : disp'[i].type = "Data"} \ FailedIn(disp'))
        /\ \A i \in EventsNamed(events', "packet") :
              \E j \in 1..Len(peerMsgs) : events'[i].arg = peerMsgs[j].data
        /\ FailedIn(disp') # {} =>
              /\ EventsNamed(events', "error") = {}
              /\ state' = "Connected" /\ socket' = "listening" /\ ~threw'

\* C22: with a session key set, a Data message that does not decrypt is
\* answered by encryptionError alone: no packet and no error event for it,
\* the state stays Connected; and every message of the peer, before or
\* after it, is dispatched once all its packets are in, in order (the ones
\* that decrypt as packet events with the sender's bytes).
C22_DecryptFailureIsLocal ==
    /\ [][DecryptStep]_vars
    /\ [](\A i, j \in 1..Len(dispLog) : i < j => dispLog[i].start < dispLog[j].start)
    /\ [](\A s \in PeerStarts :
            IF MsgSeqs(s) \subseteq received
            THEN Cardinality(Dispatches(s)) = 1
            ELSE Dispatches(s) = {})

\* a message that decrypts has just been delivered after one that did not
C22_Witness ==
    /\ last = "message" /\ sessionKey /\ state = "Connected"
    /\ Len(events) = 1 /\ events[1].name = "packet"
    /\ \E i \in 1..(Len(dispLog) - 1) :
          /\ dispLog[i].type = "Data" /\ ~Decryptable(dispLog[i].payload)
          /\ Len(connects) = 1

\* ------------------------------------------------------------------------
\* TCP framing.

\* the number of bytes of the first j frames sent, and of all bytes arrived
RECURSIVE FramedLen(_, _)
FramedLen(sent, j) == IF j = 0 THEN 0 ELSE 8 + Len(sent[j]) + FramedLen(sent, j - 1)
Arrived == FramedLen(tcp.sent, Len(tcp.sent)) - Len(tcp.inFlight)

\* the frames whose last byte has arrived
Complete == {j \in 1..Len(tcp.sent) : FramedLen(tcp.sent, j) <= Arrived}

\* C23: whatever the payloads (the empty one included) and however the
\* stream is cut into chunks, the parser has emitted one packet event per
\* frame whose last byte has arrived, with the frame's payload, in frame
\* order, and nothing else.
C23_TcpRoundTrip ==
    /\ Len(tcp.events) = Cardinality(Complete)
    /\ \A j \in 1..Len(tcp.events) :
          tcp.events[j] = [name |-> "packet", arg |-> tcp.sent[j]]

\* C24: once a header whose magic is not 'VT01' has arrived, the parser has
\* emitted one error("Bad magic") and ended the stream, and whatever bytes
\* follow, it emits no packet after that error and no second error.
C24_BadMagicStopsParser ==
    /\ \A i, j \in 1..Len(tcp.events) :
          (i < j /\ tcp.events[i].name = "error") =>
              tcp.events[j].name \notin {"packet", "error"}
    /\ \A i \in 1..Len(tcp.events) :
          tcp.events[i].name = "error" =>
              (tcp.events[i].arg = "Bad magic" /\ tcp.ended)

\* C25: a datagram that fails one of handlePacket's tests (magic, payload_len
\* above 1244, type, source or destination connection id, payload length) is
\* dropped: no error event, and remote_conn_id, the six sequence counters,
\* in_packets and out_packets are as before.
C25_InvalidDropped ==
    [][(last' \in Defects /\ peer' = peer) =>
          /\ ~threw'
          /\ EventsNamed(events', "error") = {}
          /\ remoteConnID' = remoteConnID
          /\ SeqCounters' = SeqCounters
          /\ inPackets' = inPackets
          /\ outPackets' = outPackets]_vars

\* C26: remote_conn_id is set by the first valid packet with a nonzero
\* source_conn_id and never changes afterwards; a datagram with another
\* source_conn_id, or with a dest_conn_id that is not ours, has neither its ack
\* applied nor its contents put into in_packets.
C26_RemoteConnIdLearnedOnce ==
    [][peer' = peer =>
          /\ remoteConnID > 0 => remoteConnID' = remoteConnID
          /\ remoteConnID' # remoteConnID => last' = "message"
          /\ last' \in {"source", "dest", "other"} =>
                (outSeqAcked' = outSeqAcked /\ inPackets' = inPackets)]_vars

\* The table of handleMessage: the types a message may carry, the payloads
\* tried, and the (state, type) pairs the code acts on.
HandleTypes == EUdpPacketType \cup {"Max"}
HandlePayloads ==
    {<<>>, <<U32(Peer.challenge), U32(Peer.load)>>,
     <<U32(Peer.load), U32(Peer.challenge), U32(Peer.load)>>}

ActedOn(st, type) ==
    \/ type = "Challenge" /\ st = "ChallengeReqSent"
    \/ type = "Accept" /\ st = "ConnectSent"
    \/ type = "Data" /\ st = "Connected"
    \/ type = "Disconnect" /\ st \in {"Connected", "Disconnecting"}

\* what handleMessage(type, payload) leaves of the connection c, r, is as the
\* table says
AsTabled(c, r, type, payload) ==
    /\ EventsNamed(r.events, "packet") # {} =>
          (type = "Data" /\ c.state = "Connected")
    /\ ~ActedOn(c.state, type) => r = c
    /\ (ActedOn(c.state, type) /\ type = "Data") =>
          (r.events = <<[name |-> "packet", arg |-> payload]>> /\ r.state = c.state)
    /\ (ActedOn(c.state, type) /\ type = "Challenge") =>
          \* ConnectSent, or destroyed by the ack timeout found when the
          \* Connect is queued
          r.state \in {"ConnectSent", "Disconnected"}
    /\ (ActedOn(c.state, type) /\ type = "Accept") =>
          (r.state = "Connected" /\ EventsNamed(r.events, "connect") = {1})
    /\ (ActedOn(c.state, type) /\ type = "Disconnect") =>
          /\ Len(r.wire) = 1
          /\ r.wire[1].type = "Datagram" /\ r.wire[1].seq = 0
          /\ r.wire[1].payload = <<>>
          /\ r.state = "Disconnected" /\ r.socket = "closed"
          /\ EventsNamed(r.events, "packet") = {}

\* C27: handleMessage emits packet(payload) only for Data while Connected;
\* it acts on Challenge only in ChallengeReqSent, on Accept only in
\* ConnectSent, on Disconnect only in Connected or Disconnecting (a pure-ack
\* Datagram is sent, then the connection destroyed); for every other pair of
\* state and type it changes nothing and emits neither packet nor connect.
C27_DispatchTable ==
    \A type \in HandleTypes, payload \in HandlePayloads :
        AsTabled(Cur, handleMessage(Cur, type, payload), type, payload)

\* a Disconnect has been handled while the connection was being ended
C27_Witness ==
    /\ last = "message"
    /\ \E i \in 1..Len(disp) : disp[i].type = "Disconnect"
    /\ state = "Disconnected" /\ socket = "closed"
    /\ \E i \in 1..Len(wire) : wire[i].type = "Datagram"
    /\ \E i \in 1..Len(dispLog) : dispLog[i].type = "Accept"

\* C28: while autoRetry is set and the encryption handshake has not
\* completed, a transport error reaches no error event and a fresh connect
\* is made; once connected is true, the next failure is one error event, no
\* connect is made and the connection is abandoned.
C28_ReconnectionPolicy ==
    [][(facade'.last = "error" /\ facade' # facade) =>
          /\ (facade.autoRetry /\ ~facade.connected) =>
                /\ facade'.errors = facade.errors
                /\ facade'.connects = facade.connects + 1
                /\ facade'.active
          /\ facade.connected =>
                /\ facade'.errors = facade.errors + 1
                /\ facade'.connects = facade.connects
                /\ ~facade'.active /\ ~facade'.connected]_vars

\* an error was swallowed and a connect made again, the handshake completed,
\* and the next error reached the user
C28_Witness ==
    /\ facade.last = "error" /\ facade.autoRetry
    /\ facade.connects = 2 /\ facade.errors = 1
    /\ ~facade.active

\* the records a call of flushOutgoingBuffer finds above outSeqAcked that
\* were transmitted RESEND_DELAY seconds ago or longer, and those first
\* transmitted ACK_TIMEOUT seconds ago or longer
DueForResend ==
    {q \in DOMAIN outPackets :
        q > outSeqAcked /\ outPackets[q].sentOnce
        /\ outPackets[q].sinceSent >= RESEND_DELAY}
AckTimedOut ==
    {q \in DOMAIN outPackets :
        q > outSeqAcked /\ outPackets[q].sentOnce
        /\ outPackets[q].sinceFirst >= ACK_TIMEOUT}

\* C29: a call of flushOutgoingBuffer looks at every record above
\* out_seq_acked in ascending order up to the window stop or an ack timeout:
\* each record already sent whose last transmission is at least 3 s old, and
\* that no timed-out record precedes, is transmitted again in that call.
C29_EveryDueRecordResent ==
    [][last' = "flushTick" =>
          \A q \in DueForResend :
              (\A d \in AckTimedOut : d > q) =>
                  \E i \in 1..Len(wire') : wire'[i].seq = q /\ ~wire'[i].first]_vars

\* C30: the connection attempts of the process, in the order of their
\* connect() calls, have the source_conn_ids 512, 768, 1024, ...: each its
\* own, whatever the order of connect() calls and 'listening' callbacks.
C30_SourceConnIdsDistinct ==
    \A k \in 1..Len(attempts) : attempts[k] = g_SourceConnID + 256 * (k - 1)

\* the last handler put a packet on the socket whose ack field is inSeq
Announced == \E i \in 1..Len(wire) : wire[i].ack = inSeq

\* an inSeq not yet acknowledged has the 10 ms timer pending
AckPending == inSeqAcked < inSeq => ackTimeout

\* C31 as stated: between events, whenever in_seq_acked < in_seq the
\* deferred-ack timer is pending, and every advance of in_seq is eventually
\* announced to the peer in an ack field equal to in_seq.
C31_AdvanceAnnounced ==
    /\ []AckPending
    /\ (inSeqAcked < inSeq) ~> Announced

\* C31, amended: between events, whenever in_seq_acked < in_seq the
\* deferred-ack timer is pending, and every advance of in_seq is eventually
\* announced to the peer in an ack field equal to in_seq unless the
\* connection is destroyed first.
C31_AdvanceAnnouncedOrDestroyed ==
    /\ []AckPending
    /\ (inSeqAcked < inSeq) ~> (Announced \/ socket = "closed")

\* the timer has fired after the Accept came in and announced it
C31_Witness ==
    /\ last = "ackTimer" /\ state = "Connected"
    /\ inSeq = 2 /\ inSeqAcked = 2 /\ ~ackTimeout
    /\ Announced

\* C32: in each connection attempt close is emitted once and end once,
\* close before end, whatever ends the attempt: between handlers either
\* none of the two has been emitted or close and then end, and a destroyed
\* connection has emitted them.
C32_CloseAndEndOnce ==
    /\ teardown \in {<<>>, <<"close", "end">>}
    /\ socket = "closed" => teardown = <<"close", "end">>

\* C33: end() raises only when it is called in Disconnected or
\* Disconnecting; in ChallengeReqSent, ConnectSent and Connected it returns
\* without raising, and in ChallengeReqSent it leaves the connection
\* destroyed, with no Disconnect packet sent.
C33_EndRaisesOnlyWhenClosed ==
    [][last' = "end" =>
          /\ threw' <=> state \in {"Disconnected", "Disconnecting"}
          /\ state = "ChallengeReqSent" =>
                /\ state' = "Disconnected" /\ socket' = "closed"
                /\ \A i \in 1..Len(wire') : wire'[i].type # "Disconnect"]_vars

\* the outcome of TCPConnection.connect's attempt has been reported once
\* events were handled, and once only; a late socket is ended and is not
\* the stream
TcpProxyOnce ==
    /\ Len(proxy.tcp.callbacks) <= 1
    /\ proxy.tcp.handled > 0 => Len(proxy.tcp.callbacks) = 1
    /\ proxy.tcp.late \subseteq proxy.tcp.ended
    /\ proxy.tcp.stream \notin proxy.tcp.late

\* the same of the agent, whose outcome waits for the TLS handshake when
\* the destination is secure
AgentOnce ==
    /\ Len(proxy.agent.callbacks) <= 1
    /\ (proxy.agent.handled > 0 /\ proxy.agent.tls = 0) =>
          Len(proxy.agent.callbacks) = 1
    /\ proxy.agent.late \subseteq proxy.agent.ended
    /\ \A i \in 1..Len(proxy.agent.callbacks) :
          proxy.agent.callbacks[i].socket \notin proxy.agent.late

\* C34: each proxy CONNECT attempt reports its outcome through the
\* completion callback exactly once, for every order and repetition of the
\* request's connect, timeout and error events, in TCPConnection.connect and
\* in the agent's createConnection; a proxy socket that arrives after the
\* attempt has failed is closed and never used as the stream.
C34_ProxyOutcomeOnce == TcpProxyOnce /\ AgentOnce

====
